---- MODULE Spec2Model ----
(***************************************************************************)
(* The symptom-assessment chatbot of Fever Oracle: the patient-portal      *)
(* component (patient-portal/src/components/Chatbot.jsx) with its local    *)
(* dialogue engine, and the controller around it (startSession,            *)
(* sendMessage, handleRestart) with its asynchronous network calls; and    *)
(* the frontend's component (frontend/src/components/Chatbot.tsx), which   *)
(* talks to the same backend and has no local engine.                      *)
(*                                                                         *)
(* Representation.  A text typed by the user is the sequence of its UTF-16 *)
(* code units, as a JavaScript string is, so that trim, toLowerCase,       *)
(* includes and parseFloat are computed unit by unit; a number is an IEEE  *)
(* 754 double, given by its sign, exponent and fraction bits.  Texts the   *)
(* code only ever emits (bot messages, risk levels, recommendations) are   *)
(* plain strings.  null/undefined of a record-valued field is Undefined,   *)
(* of the string-valued error it is NoError, of sessionId it is the empty  *)
(* text (the code only tests sessionId for truthiness, and '' is as falsy  *)
(* as null).  Message ids and timestamps (Date.now(), new Date()) are      *)
(* rendering keys and are left out.                                        *)
(***************************************************************************)
EXTENDS Integers, Sequences, FiniteSets, TLC

(***************************************************************************)
(* Characters and texts.  A text is the sequence of its UTF-16 code units, *)
(* as a JavaScript string is.                                              *)
(***************************************************************************)
\* the white space and line terminators of ECMAScript, which trim and
\* parseFloat skip: TAB, LF, VT, FF, CR, SP, NBSP, the space separators
\* U+1680, U+2000..U+200A, U+202F, U+205F, U+3000, the line and paragraph
\* separators U+2028 and U+2029, and the byte order mark U+FEFF
WhiteSpace ==
    {9, 10, 11, 12, 13, 32, 160, 5760, 8232, 8233, 8239, 8287, 12288, 65279}
        \cup (8192..8202)

\* The case tables follow the Unicode Character Database in version 17.0.0,
\* the version of the engines that run the portal today: an engine built on
\* an earlier version leaves the code points assigned later unchanged.
\*
\* the simple lower-case mappings: <<first, last, step, offset>> maps the
\* code points first, first + step, .., last to themselves plus offset
LowerCaseRanges ==
    <<<<65, 90, 1, 32>>, <<192, 214, 1, 32>>, <<216, 222, 1, 32>>, <<256, 302, 2, 1>>,
      <<306, 310, 2, 1>>, <<313, 327, 2, 1>>, <<330, 374, 2, 1>>, <<376, 376, 1, -121>>,
      <<377, 381, 2, 1>>, <<385, 385, 1, 210>>, <<386, 388, 2, 1>>, <<390, 390, 1, 206>>,
      <<391, 391, 1, 1>>, <<393, 394, 1, 205>>, <<395, 395, 1, 1>>, <<398, 398, 1, 79>>,
      <<399, 399, 1, 202>>, <<400, 400, 1, 203>>, <<401, 401, 1, 1>>, <<403, 403, 1, 205>>,
      <<404, 404, 1, 207>>, <<406, 406, 1, 211>>, <<407, 407, 1, 209>>, <<408, 408, 1, 1>>,
      <<412, 412, 1, 211>>, <<413, 413, 1, 213>>, <<415, 415, 1, 214>>, <<416, 420, 2, 1>>,
      <<422, 422, 1, 218>>, <<423, 423, 1, 1>>, <<425, 425, 1, 218>>, <<428, 428, 1, 1>>,
      <<430, 430, 1, 218>>, <<431, 431, 1, 1>>, <<433, 434, 1, 217>>, <<435, 437, 2, 1>>,
      <<439, 439, 1, 219>>, <<440, 440, 1, 1>>, <<444, 444, 1, 1>>, <<452, 452, 1, 2>>,
      <<453, 453, 1, 1>>, <<455, 455, 1, 2>>, <<456, 456, 1, 1>>, <<458, 458, 1, 2>>,
      <<459, 475, 2, 1>>, <<478, 494, 2, 1>>, <<497, 497, 1, 2>>, <<498, 500, 2, 1>>,
      <<502, 502, 1, -97>>, <<503, 503, 1, -56>>, <<504, 542, 2, 1>>, <<544, 544, 1, -130>>,
      <<546, 562, 2, 1>>, <<570, 570, 1, 10795>>, <<571, 571, 1, 1>>, <<573, 573, 1, -163>>,
      <<574, 574, 1, 10792>>, <<577, 577, 1, 1>>, <<579, 579, 1, -195>>, <<580, 580, 1, 69>>,
      <<581, 581, 1, 71>>, <<582, 590, 2, 1>>, <<880, 882, 2, 1>>, <<886, 886, 1, 1>>,
      <<895, 895, 1, 116>>, <<902, 902, 1, 38>>, <<904, 906, 1, 37>>, <<908, 908, 1, 64>>,
      <<910, 911, 1, 63>>, <<913, 929, 1, 32>>, <<931, 939, 1, 32>>, <<975, 975, 1, 8>>,
      <<984, 1006, 2, 1>>, <<1012, 1012, 1, -60>>, <<1015, 1015, 1, 1>>, <<1017, 1017, 1, -7>>,
      <<1018, 1018, 1, 1>>, <<1021, 1023, 1, -130>>, <<1024, 1039, 1, 80>>, <<1040, 1071, 1, 32>>,
      <<1120, 1152, 2, 1>>, <<1162, 1214, 2, 1>>, <<1216, 1216, 1, 15>>, <<1217, 1229, 2, 1>>,
      <<1232, 1326, 2, 1>>, <<1329, 1366, 1, 48>>, <<4256, 4293, 1, 7264>>, <<4295, 4295, 1, 7264>>,
      <<4301, 4301, 1, 7264>>, <<5024, 5103, 1, 38864>>, <<5104, 5109, 1, 8>>, <<7305, 7305, 1, 1>>,
      <<7312, 7354, 1, -3008>>, <<7357, 7359, 1, -3008>>, <<7680, 7828, 2, 1>>, <<7838, 7838, 1, -7615>>,
      <<7840, 7934, 2, 1>>, <<7944, 7951, 1, -8>>, <<7960, 7965, 1, -8>>, <<7976, 7983, 1, -8>>,
      <<7992, 7999, 1, -8>>, <<8008, 8013, 1, -8>>, <<8025, 8031, 2, -8>>, <<8040, 8047, 1, -8>>,
      <<8072, 8079, 1, -8>>, <<8088, 8095, 1, -8>>, <<8104, 8111, 1, -8>>, <<8120, 8121, 1, -8>>,
      <<8122, 8123, 1, -74>>, <<8124, 8124, 1, -9>>, <<8136, 8139, 1, -86>>, <<8140, 8140, 1, -9>>,
      <<8152, 8153, 1, -8>>, <<8154, 8155, 1, -100>>, <<8168, 8169, 1, -8>>, <<8170, 8171, 1, -112>>,
      <<8172, 8172, 1, -7>>, <<8184, 8185, 1, -128>>, <<8186, 8187, 1, -126>>, <<8188, 8188, 1, -9>>,
      <<8486, 8486, 1, -7517>>, <<8490, 8490, 1, -8383>>, <<8491, 8491, 1, -8262>>, <<8498, 8498, 1, 28>>,
      <<8544, 8559, 1, 16>>, <<8579, 8579, 1, 1>>, <<9398, 9423, 1, 26>>, <<11264, 11311, 1, 48>>,
      <<11360, 11360, 1, 1>>, <<11362, 11362, 1, -10743>>, <<11363, 11363, 1, -3814>>, <<11364, 11364, 1, -10727>>,
      <<11367, 11371, 2, 1>>, <<11373, 11373, 1, -10780>>, <<11374, 11374, 1, -10749>>, <<11375, 11375, 1, -10783>>,
      <<11376, 11376, 1, -10782>>, <<11378, 11378, 1, 1>>, <<11381, 11381, 1, 1>>, <<11390, 11391, 1, -10815>>,
      <<11392, 11490, 2, 1>>, <<11499, 11501, 2, 1>>, <<11506, 11506, 1, 1>>, <<42560, 42604, 2, 1>>,
      <<42624, 42650, 2, 1>>, <<42786, 42798, 2, 1>>, <<42802, 42862, 2, 1>>, <<42873, 42875, 2, 1>>,
      <<42877, 42877, 1, -35332>>, <<42878, 42886, 2, 1>>, <<42891, 42891, 1, 1>>, <<42893, 42893, 1, -42280>>,
      <<42896, 42898, 2, 1>>, <<42902, 42920, 2, 1>>, <<42922, 42922, 1, -42308>>, <<42923, 42923, 1, -42319>>,
      <<42924, 42924, 1, -42315>>, <<42925, 42925, 1, -42305>>, <<42926, 42926, 1, -42308>>, <<42928, 42928, 1, -42258>>,
      <<42929, 42929, 1, -42282>>, <<42930, 42930, 1, -42261>>, <<42931, 42931, 1, 928>>, <<42932, 42946, 2, 1>>,
      <<42948, 42948, 1, -48>>, <<42949, 42949, 1, -42307>>, <<42950, 42950, 1, -35384>>, <<42951, 42953, 2, 1>>,
      <<42955, 42955, 1, -42343>>, <<42956, 42970, 2, 1>>, <<42972, 42972, 1, -42561>>, <<42997, 42997, 1, 1>>,
      <<65313, 65338, 1, 32>>, <<66560, 66599, 1, 40>>, <<66736, 66771, 1, 40>>, <<66928, 66938, 1, 39>>,
      <<66940, 66954, 1, 39>>, <<66956, 66962, 1, 39>>, <<66964, 66965, 1, 39>>, <<68736, 68786, 1, 64>>,
      <<68944, 68965, 1, 32>>, <<71840, 71871, 1, 32>>, <<93760, 93791, 1, 32>>, <<93856, 93880, 1, 27>>,
      <<125184, 125217, 1, 34>>>>

\* the unconditional lower-case mappings of SpecialCasing.txt:
\* <<code point, its lower case>>
LowerCaseSpecial ==
    <<<<304, <<105, 775>>>>>>

\* the simple upper-case mappings, as LowerCaseRanges
UpperCaseRanges ==
    <<<<97, 122, 1, -32>>, <<181, 181, 1, 743>>, <<224, 246, 1, -32>>, <<248, 254, 1, -32>>,
      <<255, 255, 1, 121>>, <<257, 303, 2, -1>>, <<305, 305, 1, -232>>, <<307, 311, 2, -1>>,
      <<314, 328, 2, -1>>, <<331, 375, 2, -1>>, <<378, 382, 2, -1>>, <<383, 383, 1, -300>>,
      <<384, 384, 1, 195>>, <<387, 389, 2, -1>>, <<392, 392, 1, -1>>, <<396, 396, 1, -1>>,
      <<402, 402, 1, -1>>, <<405, 405, 1, 97>>, <<409, 409, 1, -1>>, <<410, 410, 1, 163>>,
      <<411, 411, 1, 42561>>, <<414, 414, 1, 130>>, <<417, 421, 2, -1>>, <<424, 424, 1, -1>>,
      <<429, 429, 1, -1>>, <<432, 432, 1, -1>>, <<436, 438, 2, -1>>, <<441, 441, 1, -1>>,
      <<445, 445, 1, -1>>, <<447, 447, 1, 56>>, <<453, 453, 1, -1>>, <<454, 454, 1, -2>>,
      <<456, 456, 1, -1>>, <<457, 457, 1, -2>>, <<459, 459, 1, -1>>, <<460, 460, 1, -2>>,
      <<462, 476, 2, -1>>, <<477, 477, 1, -79>>, <<479, 495, 2, -1>>, <<498, 498, 1, -1>>,
      <<499, 499, 1, -2>>, <<501, 501, 1, -1>>, <<505, 543, 2, -1>>, <<547, 563, 2, -1>>,
      <<572, 572, 1, -1>>, <<575, 576, 1, 10815>>, <<578, 578, 1, -1>>, <<583, 591, 2, -1>>,
      <<592, 592, 1, 10783>>, <<593, 593, 1, 10780>>, <<594, 594, 1, 10782>>, <<595, 595, 1, -210>>,
      <<596, 596, 1, -206>>, <<598, 599, 1, -205>>, <<601, 601, 1, -202>>, <<603, 603, 1, -203>>,
      <<604, 604, 1, 42319>>, <<608, 608, 1, -205>>, <<609, 609, 1, 42315>>, <<611, 611, 1, -207>>,
      <<612, 612, 1, 42343>>, <<613, 613, 1, 42280>>, <<614, 614, 1, 42308>>, <<616, 616, 1, -209>>,
      <<617, 617, 1, -211>>, <<618, 618, 1, 42308>>, <<619, 619, 1, 10743>>, <<620, 620, 1, 42305>>,
      <<623, 623, 1, -211>>, <<625, 625, 1, 10749>>, <<626, 626, 1, -213>>, <<629, 629, 1, -214>>,
      <<637, 637, 1, 10727>>, <<640, 640, 1, -218>>, <<642, 642, 1, 42307>>, <<643, 643, 1, -218>>,
      <<647, 647, 1, 42282>>, <<648, 648, 1, -218>>, <<649, 649, 1, -69>>, <<650, 651, 1, -217>>,
      <<652, 652, 1, -71>>, <<658, 658, 1, -219>>, <<669, 669, 1, 42261>>, <<670, 670, 1, 42258>>,
      <<837, 837, 1, 84>>, <<881, 883, 2, -1>>, <<887, 887, 1, -1>>, <<891, 893, 1, 130>>,
      <<940, 940, 1, -38>>, <<941, 943, 1, -37>>, <<945, 961, 1, -32>>, <<962, 962, 1, -31>>,
      <<963, 971, 1, -32>>, <<972, 972, 1, -64>>, <<973, 974, 1, -63>>, <<976, 976, 1, -62>>,
      <<977, 977, 1, -57>>, <<981, 981, 1, -47>>, <<982, 982, 1, -54>>, <<983, 983, 1, -8>>,
      <<985, 1007, 2, -1>>, <<1008, 1008, 1, -86>>, <<1009, 1009, 1, -80>>, <<1010, 1010, 1, 7>>,
      <<1011, 1011, 1, -116>>, <<1013, 1013, 1, -96>>, <<1016, 1016, 1, -1>>, <<1019, 1019, 1, -1>>,
      <<1072, 1103, 1, -32>>, <<1104, 1119, 1, -80>>, <<1121, 1153, 2, -1>>, <<1163, 1215, 2, -1>>,
      <<1218, 1230, 2, -1>>, <<1231, 1231, 1, -15>>, <<1233, 1327, 2, -1>>, <<1377, 1414, 1, -48>>,
      <<4304, 4346, 1, 3008>>, <<4349, 4351, 1, 3008>>, <<5112, 5117, 1, -8>>, <<7296, 7296, 1, -6254>>,
      <<7297, 7297, 1, -6253>>, <<7298, 7298, 1, -6244>>, <<7299, 7300, 1, -6242>>, <<7301, 7301, 1, -6243>>,
      <<7302, 7302, 1, -6236>>, <<7303, 7303, 1, -6181>>, <<7304, 7304, 1, 35266>>, <<7306, 7306, 1, -1>>,
      <<7545, 7545, 1, 35332>>, <<7549, 7549, 1, 3814>>, <<7566, 7566, 1, 35384>>, <<7681, 7829, 2, -1>>,
      <<7835, 7835, 1, -59>>, <<7841, 7935, 2, -1>>, <<7936, 7943, 1, 8>>, <<7952, 7957, 1, 8>>,
      <<7968, 7975, 1, 8>>, <<7984, 7991, 1, 8>>, <<8000, 8005, 1, 8>>, <<8017, 8023, 2, 8>>,
      <<8032, 8039, 1, 8>>, <<8048, 8049, 1, 74>>, <<8050, 8053, 1, 86>>, <<8054, 8055, 1, 100>>,
      <<8056, 8057, 1, 128>>, <<8058, 8059, 1, 112>>, <<8060, 8061, 1, 126>>, <<8112, 8113, 1, 8>>,
      <<8126, 8126, 1, -7205>>, <<8144, 8145, 1, 8>>, <<8160, 8161, 1, 8>>, <<8165, 8165, 1, 7>>,
      <<8526, 8526, 1, -28>>, <<8560, 8575, 1, -16>>, <<8580, 8580, 1, -1>>, <<9424, 9449, 1, -26>>,
      <<11312, 11359, 1, -48>>, <<11361, 11361, 1, -1>>, <<11365, 11365, 1, -10795>>, <<11366, 11366, 1, -10792>>,
      <<11368, 11372, 2, -1>>, <<11379, 11379, 1, -1>>, <<11382, 11382, 1, -1>>, <<11393, 11491, 2, -1>>,
      <<11500, 11502, 2, -1>>, <<11507, 11507, 1, -1>>, <<11520, 11557, 1, -7264>>, <<11559, 11559, 1, -7264>>,
      <<11565, 11565, 1, -7264>>, <<42561, 42605, 2, -1>>, <<42625, 42651, 2, -1>>, <<42787, 42799, 2, -1>>,
      <<42803, 42863, 2, -1>>, <<42874, 42876, 2, -1>>, <<42879, 42887, 2, -1>>, <<42892, 42892, 1, -1>>,
      <<42897, 42899, 2, -1>>, <<42900, 42900, 1, 48>>, <<42903, 42921, 2, -1>>, <<42933, 42947, 2, -1>>,
      <<42952, 42954, 2, -1>>, <<42957, 42971, 2, -1>>, <<42998, 42998, 1, -1>>, <<43859, 43859, 1, -928>>,
      <<43888, 43967, 1, -38864>>, <<65345, 65370, 1, -32>>, <<66600, 66639, 1, -40>>, <<66776, 66811, 1, -40>>,
      <<66967, 66977, 1, -39>>, <<66979, 66993, 1, -39>>, <<66995, 67001, 1, -39>>, <<67003, 67004, 1, -39>>,
      <<68800, 68850, 1, -64>>, <<68976, 68997, 1, -32>>, <<71872, 71903, 1, -32>>, <<93792, 93823, 1, -32>>,
      <<93883, 93907, 1, -27>>, <<125218, 125251, 1, -34>>>>

\* the unconditional upper-case mappings of SpecialCasing.txt:
\* <<code point, its upper case>>
UpperCaseSpecial ==
    <<<<223, <<83, 83>>>>, <<329, <<700, 78>>>>, <<496, <<74, 780>>>>,
      <<912, <<921, 776, 769>>>>, <<944, <<933, 776, 769>>>>, <<1415, <<1333, 1362>>>>,
      <<7830, <<72, 817>>>>, <<7831, <<84, 776>>>>, <<7832, <<87, 778>>>>,
      <<7833, <<89, 778>>>>, <<7834, <<65, 702>>>>, <<8016, <<933, 787>>>>,
      <<8018, <<933, 787, 768>>>>, <<8020, <<933, 787, 769>>>>, <<8022, <<933, 787, 834>>>>,
      <<8064, <<7944, 921>>>>, <<8065, <<7945, 921>>>>, <<8066, <<7946, 921>>>>,
      <<8067, <<7947, 921>>>>, <<8068, <<7948, 921>>>>, <<8069, <<7949, 921>>>>,
      <<8070, <<7950, 921>>>>, <<8071, <<7951, 921>>>>, <<8072, <<7944, 921>>>>,
      <<8073, <<7945, 921>>>>, <<8074, <<7946, 921>>>>, <<8075, <<7947, 921>>>>,
      <<8076, <<7948, 921>>>>, <<8077, <<7949, 921>>>>, <<8078, <<7950, 921>>>>,
      <<8079, <<7951, 921>>>>, <<8080, <<7976, 921>>>>, <<8081, <<7977, 921>>>>,
      <<8082, <<7978, 921>>>>, <<8083, <<7979, 921>>>>, <<8084, <<7980, 921>>>>,
      <<8085, <<7981, 921>>>>, <<8086, <<7982, 921>>>>, <<8087, <<7983, 921>>>>,
      <<8088, <<7976, 921>>>>, <<8089, <<7977, 921>>>>, <<8090, <<7978, 921>>>>,
      <<8091, <<7979, 921>>>>, <<8092, <<7980, 921>>>>, <<8093, <<7981, 921>>>>,
      <<8094, <<7982, 921>>>>, <<8095, <<7983, 921>>>>, <<8096, <<8040, 921>>>>,
      <<8097, <<8041, 921>>>>, <<8098, <<8042, 921>>>>, <<8099, <<8043, 921>>>>,
      <<8100, <<8044, 921>>>>, <<8101, <<8045, 921>>>>, <<8102, <<8046, 921>>>>,
      <<8103, <<8047, 921>>>>, <<8104, <<8040, 921>>>>, <<8105, <<8041, 921>>>>,
      <<8106, <<8042, 921>>>>, <<8107, <<8043, 921>>>>, <<8108, <<8044, 921>>>>,
      <<8109, <<8045, 921>>>>, <<8110, <<8046, 921>>>>, <<8111, <<8047, 921>>>>,
      <<8114, <<8122, 921>>>>, <<8115, <<913, 921>>>>, <<8116, <<902, 921>>>>,
      <<8118, <<913, 834>>>>, <<8119, <<913, 834, 921>>>>, <<8124, <<913, 921>>>>,
      <<8130, <<8138, 921>>>>, <<8131, <<919, 921>>>>, <<8132, <<905, 921>>>>,
      <<8134, <<919, 834>>>>, <<8135, <<919, 834, 921>>>>, <<8140, <<919, 921>>>>,
      <<8146, <<921, 776, 768>>>>, <<8147, <<921, 776, 769>>>>, <<8150, <<921, 834>>>>,
      <<8151, <<921, 776, 834>>>>, <<8162, <<933, 776, 768>>>>, <<8163, <<933, 776, 769>>>>,
      <<8164, <<929, 787>>>>, <<8166, <<933, 834>>>>, <<8167, <<933, 776, 834>>>>,
      <<8178, <<8186, 921>>>>, <<8179, <<937, 921>>>>, <<8180, <<911, 921>>>>,
      <<8182, <<937, 834>>>>, <<8183, <<937, 834, 921>>>>, <<8188, <<937, 921>>>>,
      <<64256, <<70, 70>>>>, <<64257, <<70, 73>>>>, <<64258, <<70, 76>>>>,
      <<64259, <<70, 70, 73>>>>, <<64260, <<70, 70, 76>>>>, <<64261, <<83, 84>>>>,
      <<64262, <<83, 84>>>>, <<64275, <<1348, 1350>>>>, <<64276, <<1348, 1333>>>>,
      <<64277, <<1348, 1339>>>>, <<64278, <<1358, 1350>>>>, <<64279, <<1348, 1341>>>>>>

\* the code points with the property Cased, as <<first, last>>
CasedRanges ==
    <<<<65, 90>>, <<97, 122>>, <<170, 170>>, <<181, 181>>, <<186, 186>>, <<192, 214>>,
      <<216, 246>>, <<248, 442>>, <<444, 447>>, <<452, 659>>, <<662, 696>>, <<704, 705>>,
      <<736, 740>>, <<837, 837>>, <<880, 883>>, <<886, 887>>, <<890, 893>>, <<895, 895>>,
      <<902, 902>>, <<904, 906>>, <<908, 908>>, <<910, 929>>, <<931, 1013>>, <<1015, 1153>>,
      <<1162, 1327>>, <<1329, 1366>>, <<1376, 1416>>, <<4256, 4293>>, <<4295, 4295>>, <<4301, 4301>>,
      <<4304, 4346>>, <<4348, 4351>>, <<5024, 5109>>, <<5112, 5117>>, <<7296, 7306>>, <<7312, 7354>>,
      <<7357, 7359>>, <<7424, 7615>>, <<7680, 7957>>, <<7960, 7965>>, <<7968, 8005>>, <<8008, 8013>>,
      <<8016, 8023>>, <<8025, 8025>>, <<8027, 8027>>, <<8029, 8029>>, <<8031, 8061>>, <<8064, 8116>>,
      <<8118, 8124>>, <<8126, 8126>>, <<8130, 8132>>, <<8134, 8140>>, <<8144, 8147>>, <<8150, 8155>>,
      <<8160, 8172>>, <<8178, 8180>>, <<8182, 8188>>, <<8305, 8305>>, <<8319, 8319>>, <<8336, 8348>>,
      <<8450, 8450>>, <<8455, 8455>>, <<8458, 8467>>, <<8469, 8469>>, <<8473, 8477>>, <<8484, 8484>>,
      <<8486, 8486>>, <<8488, 8488>>, <<8490, 8493>>, <<8495, 8500>>, <<8505, 8505>>, <<8508, 8511>>,
      <<8517, 8521>>, <<8526, 8526>>, <<8544, 8575>>, <<8579, 8580>>, <<9398, 9449>>, <<11264, 11492>>,
      <<11499, 11502>>, <<11506, 11507>>, <<11520, 11557>>, <<11559, 11559>>, <<11565, 11565>>, <<42560, 42605>>,
      <<42624, 42653>>, <<42786, 42887>>, <<42891, 42894>>, <<42896, 42972>>, <<42993, 42998>>, <<43000, 43002>>,
      <<43824, 43866>>, <<43868, 43881>>, <<43888, 43967>>, <<64256, 64262>>, <<64275, 64279>>, <<65313, 65338>>,
      <<65345, 65370>>, <<66560, 66639>>, <<66736, 66771>>, <<66776, 66811>>, <<66928, 66938>>, <<66940, 66954>>,
      <<66956, 66962>>, <<66964, 66965>>, <<66967, 66977>>, <<66979, 66993>>, <<66995, 67001>>, <<67003, 67004>>,
      <<67456, 67456>>, <<67459, 67461>>, <<67463, 67504>>, <<67506, 67514>>, <<68736, 68786>>, <<68800, 68850>>,
      <<68944, 68965>>, <<68976, 68997>>, <<71840, 71903>>, <<93760, 93823>>, <<93856, 93880>>, <<93883, 93907>>,
      <<119808, 119892>>, <<119894, 119964>>, <<119966, 119967>>, <<119970, 119970>>, <<119973, 119974>>, <<119977, 119980>>,
      <<119982, 119993>>, <<119995, 119995>>, <<119997, 120003>>, <<120005, 120069>>, <<120071, 120074>>, <<120077, 120084>>,
      <<120086, 120092>>, <<120094, 120121>>, <<120123, 120126>>, <<120128, 120132>>, <<120134, 120134>>, <<120138, 120144>>,
      <<120146, 120485>>, <<120488, 120512>>, <<120514, 120538>>, <<120540, 120570>>, <<120572, 120596>>, <<120598, 120628>>,
      <<120630, 120654>>, <<120656, 120686>>, <<120688, 120712>>, <<120714, 120744>>, <<120746, 120770>>, <<120772, 120779>>,
      <<122624, 122633>>, <<122635, 122654>>, <<122661, 122666>>, <<122928, 122989>>, <<125184, 125251>>, <<127280, 127305>>,
      <<127312, 127337>>, <<127344, 127369>>>>

\* the code points with the property Case_Ignorable, as <<first, last>>
CaseIgnorableRanges ==
    <<<<39, 39>>, <<46, 46>>, <<58, 58>>, <<94, 94>>, <<96, 96>>, <<168, 168>>,
      <<173, 173>>, <<175, 175>>, <<180, 180>>, <<183, 184>>, <<688, 879>>, <<884, 885>>,
      <<890, 890>>, <<900, 901>>, <<903, 903>>, <<1155, 1161>>, <<1369, 1369>>, <<1375, 1375>>,
      <<1425, 1469>>, <<1471, 1471>>, <<1473, 1474>>, <<1476, 1477>>, <<1479, 1479>>, <<1524, 1524>>,
      <<1536, 1541>>, <<1552, 1562>>, <<1564, 1564>>, <<1600, 1600>>, <<1611, 1631>>, <<1648, 1648>>,
      <<1750, 1757>>, <<1759, 1768>>, <<1770, 1773>>, <<1807, 1807>>, <<1809, 1809>>, <<1840, 1866>>,
      <<1958, 1968>>, <<2027, 2037>>, <<2042, 2042>>, <<2045, 2045>>, <<2070, 2093>>, <<2137, 2139>>,
      <<2184, 2184>>, <<2192, 2193>>, <<2199, 2207>>, <<2249, 2306>>, <<2362, 2362>>, <<2364, 2364>>,
      <<2369, 2376>>, <<2381, 2381>>, <<2385, 2391>>, <<2402, 2403>>, <<2417, 2417>>, <<2433, 2433>>,
      <<2492, 2492>>, <<2497, 2500>>, <<2509, 2509>>, <<2530, 2531>>, <<2558, 2558>>, <<2561, 2562>>,
      <<2620, 2620>>, <<2625, 2626>>, <<2631, 2632>>, <<2635, 2637>>, <<2641, 2641>>, <<2672, 2673>>,
      <<2677, 2677>>, <<2689, 2690>>, <<2748, 2748>>, <<2753, 2757>>, <<2759, 2760>>, <<2765, 2765>>,
      <<2786, 2787>>, <<2810, 2815>>, <<2817, 2817>>, <<2876, 2876>>, <<2879, 2879>>, <<2881, 2884>>,
      <<2893, 2893>>, <<2901, 2902>>, <<2914, 2915>>, <<2946, 2946>>, <<3008, 3008>>, <<3021, 3021>>,
      <<3072, 3072>>, <<3076, 3076>>, <<3132, 3132>>, <<3134, 3136>>, <<3142, 3144>>, <<3146, 3149>>,
      <<3157, 3158>>, <<3170, 3171>>, <<3201, 3201>>, <<3260, 3260>>, <<3263, 3263>>, <<3270, 3270>>,
      <<3276, 3277>>, <<3298, 3299>>, <<3328, 3329>>, <<3387, 3388>>, <<3393, 3396>>, <<3405, 3405>>,
      <<3426, 3427>>, <<3457, 3457>>, <<3530, 3530>>, <<3538, 3540>>, <<3542, 3542>>, <<3633, 3633>>,
      <<3636, 3642>>, <<3654, 3662>>, <<3761, 3761>>, <<3764, 3772>>, <<3782, 3782>>, <<3784, 3790>>,
      <<3864, 3865>>, <<3893, 3893>>, <<3895, 3895>>, <<3897, 3897>>, <<3953, 3966>>, <<3968, 3972>>,
      <<3974, 3975>>, <<3981, 3991>>, <<3993, 4028>>, <<4038, 4038>>, <<4141, 4144>>, <<4146, 4151>>,
      <<4153, 4154>>, <<4157, 4158>>, <<4184, 4185>>, <<4190, 4192>>, <<4209, 4212>>, <<4226, 4226>>,
      <<4229, 4230>>, <<4237, 4237>>, <<4253, 4253>>, <<4348, 4348>>, <<4957, 4959>>, <<5906, 5908>>,
      <<5938, 5939>>, <<5970, 5971>>, <<6002, 6003>>, <<6068, 6069>>, <<6071, 6077>>, <<6086, 6086>>,
      <<6089, 6099>>, <<6103, 6103>>, <<6109, 6109>>, <<6155, 6159>>, <<6211, 6211>>, <<6277, 6278>>,
      <<6313, 6313>>, <<6432, 6434>>, <<6439, 6440>>, <<6450, 6450>>, <<6457, 6459>>, <<6679, 6680>>,
      <<6683, 6683>>, <<6742, 6742>>, <<6744, 6750>>, <<6752, 6752>>, <<6754, 6754>>, <<6757, 6764>>,
      <<6771, 6780>>, <<6783, 6783>>, <<6823, 6823>>, <<6832, 6877>>, <<6880, 6891>>, <<6912, 6915>>,
      <<6964, 6964>>, <<6966, 6970>>, <<6972, 6972>>, <<6978, 6978>>, <<7019, 7027>>, <<7040, 7041>>,
      <<7074, 7077>>, <<7080, 7081>>, <<7083, 7085>>, <<7142, 7142>>, <<7144, 7145>>, <<7149, 7149>>,
      <<7151, 7153>>, <<7212, 7219>>, <<7222, 7223>>, <<7288, 7293>>, <<7376, 7378>>, <<7380, 7392>>,
      <<7394, 7400>>, <<7405, 7405>>, <<7412, 7412>>, <<7416, 7417>>, <<7468, 7530>>, <<7544, 7544>>,
      <<7579, 7679>>, <<8125, 8125>>, <<8127, 8129>>, <<8141, 8143>>, <<8157, 8159>>, <<8173, 8175>>,
      <<8189, 8190>>, <<8203, 8207>>, <<8216, 8217>>, <<8228, 8228>>, <<8231, 8231>>, <<8234, 8238>>,
      <<8288, 8292>>, <<8294, 8303>>, <<8305, 8305>>, <<8319, 8319>>, <<8336, 8348>>, <<8400, 8432>>,
      <<11388, 11389>>, <<11503, 11505>>, <<11631, 11631>>, <<11647, 11647>>, <<11744, 11775>>, <<11823, 11823>>,
      <<12293, 12293>>, <<12330, 12333>>, <<12337, 12341>>, <<12347, 12347>>, <<12441, 12446>>, <<12540, 12542>>,
      <<40981, 40981>>, <<42232, 42237>>, <<42508, 42508>>, <<42607, 42610>>, <<42612, 42621>>, <<42623, 42623>>,
      <<42652, 42655>>, <<42736, 42737>>, <<42752, 42785>>, <<42864, 42864>>, <<42888, 42890>>, <<42993, 42996>>,
      <<43000, 43001>>, <<43010, 43010>>, <<43014, 43014>>, <<43019, 43019>>, <<43045, 43046>>, <<43052, 43052>>,
      <<43204, 43205>>, <<43232, 43249>>, <<43263, 43263>>, <<43302, 43309>>, <<43335, 43345>>, <<43392, 43394>>,
      <<43443, 43443>>, <<43446, 43449>>, <<43452, 43453>>, <<43471, 43471>>, <<43493, 43494>>, <<43561, 43566>>,
      <<43569, 43570>>, <<43573, 43574>>, <<43587, 43587>>, <<43596, 43596>>, <<43632, 43632>>, <<43644, 43644>>,
      <<43696, 43696>>, <<43698, 43700>>, <<43703, 43704>>, <<43710, 43711>>, <<43713, 43713>>, <<43741, 43741>>,
      <<43756, 43757>>, <<43763, 43764>>, <<43766, 43766>>, <<43867, 43871>>, <<43881, 43883>>, <<44005, 44005>>,
      <<44008, 44008>>, <<44013, 44013>>, <<64286, 64286>>, <<64434, 64450>>, <<65024, 65039>>, <<65043, 65043>>,
      <<65056, 65071>>, <<65106, 65106>>, <<65109, 65109>>, <<65279, 65279>>, <<65287, 65287>>, <<65294, 65294>>,
      <<65306, 65306>>, <<65342, 65342>>, <<65344, 65344>>, <<65392, 65392>>, <<65438, 65439>>, <<65507, 65507>>,
      <<65529, 65531>>, <<66045, 66045>>, <<66272, 66272>>, <<66422, 66426>>, <<67456, 67461>>, <<67463, 67504>>,
      <<67506, 67514>>, <<68097, 68099>>, <<68101, 68102>>, <<68108, 68111>>, <<68152, 68154>>, <<68159, 68159>>,
      <<68325, 68326>>, <<68900, 68903>>, <<68942, 68942>>, <<68969, 68973>>, <<68975, 68975>>, <<69291, 69292>>,
      <<69317, 69317>>, <<69370, 69375>>, <<69446, 69456>>, <<69506, 69509>>, <<69633, 69633>>, <<69688, 69702>>,
      <<69744, 69744>>, <<69747, 69748>>, <<69759, 69761>>, <<69811, 69814>>, <<69817, 69818>>, <<69821, 69821>>,
      <<69826, 69826>>, <<69837, 69837>>, <<69888, 69890>>, <<69927, 69931>>, <<69933, 69940>>, <<70003, 70003>>,
      <<70016, 70017>>, <<70070, 70078>>, <<70089, 70092>>, <<70095, 70095>>, <<70191, 70193>>, <<70196, 70196>>,
      <<70198, 70199>>, <<70206, 70206>>, <<70209, 70209>>, <<70367, 70367>>, <<70371, 70378>>, <<70400, 70401>>,
      <<70459, 70460>>, <<70464, 70464>>, <<70502, 70508>>, <<70512, 70516>>, <<70587, 70592>>, <<70606, 70606>>,
      <<70608, 70608>>, <<70610, 70610>>, <<70625, 70626>>, <<70712, 70719>>, <<70722, 70724>>, <<70726, 70726>>,
      <<70750, 70750>>, <<70835, 70840>>, <<70842, 70842>>, <<70847, 70848>>, <<70850, 70851>>, <<71090, 71093>>,
      <<71100, 71101>>, <<71103, 71104>>, <<71132, 71133>>, <<71219, 71226>>, <<71229, 71229>>, <<71231, 71232>>,
      <<71339, 71339>>, <<71341, 71341>>, <<71344, 71349>>, <<71351, 71351>>, <<71453, 71453>>, <<71455, 71455>>,
      <<71458, 71461>>, <<71463, 71467>>, <<71727, 71735>>, <<71737, 71738>>, <<71995, 71996>>, <<71998, 71998>>,
      <<72003, 72003>>, <<72148, 72151>>, <<72154, 72155>>, <<72160, 72160>>, <<72193, 72202>>, <<72243, 72248>>,
      <<72251, 72254>>, <<72263, 72263>>, <<72273, 72278>>, <<72281, 72283>>, <<72330, 72342>>, <<72344, 72345>>,
      <<72544, 72544>>, <<72546, 72548>>, <<72550, 72550>>, <<72752, 72758>>, <<72760, 72765>>, <<72767, 72767>>,
      <<72850, 72871>>, <<72874, 72880>>, <<72882, 72883>>, <<72885, 72886>>, <<73009, 73014>>, <<73018, 73018>>,
      <<73020, 73021>>, <<73023, 73029>>, <<73031, 73031>>, <<73104, 73105>>, <<73109, 73109>>, <<73111, 73111>>,
      <<73177, 73177>>, <<73459, 73460>>, <<73472, 73473>>, <<73526, 73530>>, <<73536, 73536>>, <<73538, 73538>>,
      <<73562, 73562>>, <<78896, 78912>>, <<78919, 78933>>, <<90398, 90409>>, <<90413, 90415>>, <<92912, 92916>>,
      <<92976, 92982>>, <<92992, 92995>>, <<93504, 93506>>, <<93547, 93548>>, <<94031, 94031>>, <<94095, 94111>>,
      <<94176, 94177>>, <<94179, 94180>>, <<94194, 94195>>, <<110576, 110579>>, <<110581, 110587>>, <<110589, 110590>>,
      <<113821, 113822>>, <<113824, 113827>>, <<118528, 118573>>, <<118576, 118598>>, <<119143, 119145>>, <<119155, 119170>>,
      <<119173, 119179>>, <<119210, 119213>>, <<119362, 119364>>, <<121344, 121398>>, <<121403, 121452>>, <<121461, 121461>>,
      <<121476, 121476>>, <<121499, 121503>>, <<121505, 121519>>, <<122880, 122886>>, <<122888, 122904>>, <<122907, 122913>>,
      <<122915, 122916>>, <<122918, 122922>>, <<122928, 122989>>, <<123023, 123023>>, <<123184, 123197>>, <<123566, 123566>>,
      <<123628, 123631>>, <<124139, 124143>>, <<124398, 124399>>, <<124643, 124643>>, <<124646, 124646>>, <<124654, 124655>>,
      <<124661, 124661>>, <<124671, 124671>>, <<125136, 125142>>, <<125252, 125259>>, <<127995, 127999>>, <<917505, 917505>>,
      <<917536, 917631>>, <<917760, 917999>>>>

InRange(cp, r) == r[1] <= cp /\ cp <= r[2] /\ (cp - r[1]) % r[3] = 0

\* the code points of a text: a high surrogate followed by a low surrogate
\* is one code point, every other code unit is its own
RECURSIVE CodePoints(_)
CodePoints(s) ==
    IF s = <<>> THEN <<>>
    ELSE IF /\ Len(s) >= 2
            /\ s[1] \in 55296..56319
            /\ s[2] \in 56320..57343
    THEN <<65536 + (s[1] - 55296) * 1024 + (s[2] - 56320)>>
             \o CodePoints(SubSeq(s, 3, Len(s)))
    ELSE <<s[1]>> \o CodePoints(Tail(s))

\* the code units of a sequence of code points
RECURSIVE CodeUnits(_)
CodeUnits(cps) ==
    IF cps = <<>> THEN <<>>
    ELSE IF cps[1] >= 65536
    THEN <<55296 + (cps[1] - 65536) \div 1024,
           56320 + ((cps[1] - 65536) % 1024)>> \o CodeUnits(Tail(cps))
    ELSE <<cps[1]>> \o CodeUnits(Tail(cps))

\* The case mapping of the code point c by the tables of a case: the row of
\* special for c if there is one, else c moved by the offset of the range
\* of ranges that holds it, else c itself.
CaseMapping(c, special, ranges) ==
    IF \E i \in 1..Len(special) : special[i][1] = c
    THEN special[CHOOSE i \in 1..Len(special) : special[i][1] = c][2]
    ELSE IF \E i \in 1..Len(ranges) : InRange(c, ranges[i])
    THEN <<c + ranges[CHOOSE i \in 1..Len(ranges) : InRange(c, ranges[i])][4]>>
    ELSE <<c>>

\* String.prototype.toLowerCase, one code point out of context
LowerChar(c) ==
    IF c < 128 THEN IF c \in 65..90 THEN <<c + 32>> ELSE <<c>>
    ELSE CaseMapping(c, LowerCaseSpecial, LowerCaseRanges)

\* String.prototype.toUpperCase, one code point
UpperChar(c) ==
    IF c < 128 THEN IF c \in 97..122 THEN <<c - 32>> ELSE <<c>>
    ELSE CaseMapping(c, UpperCaseSpecial, UpperCaseRanges)

\* whether one of the ranges holds the code point c
Within(ranges, c) ==
    \E i \in 1..Len(ranges) : ranges[i][1] <= c /\ c <= ranges[i][2]

\* whether the first code point that is not case-ignorable, looking from
\* position i in the direction step (1: forward, -1: backward), is cased
RECURSIVE NextCased(_, _, _)
NextCased(cps, i, step) ==
    IF i < 1 \/ i > Len(cps) THEN FALSE
    ELSE IF Within(CaseIgnorableRanges, cps[i])
    THEN NextCased(cps, i + step, step)
    ELSE Within(CasedRanges, cps[i])

\* the condition Final_Sigma of SpecialCasing.txt, for the sigma at i: a
\* cased letter before it and none after it
FinalSigma(cps, i) ==
    \A step \in {-1, 1} : NextCased(cps, i + step, step) <=> step = -1

RECURSIVE Flatten(_)
Flatten(ss) == IF ss = <<>> THEN <<>> ELSE ss[1] \o Flatten(Tail(ss))

\* the lower case of a sequence of code points: every code point is replaced
\* by its lower case, a capital sigma at the end of a word by the final
\* small sigma
LowerCasePoints(cps) ==
    Flatten([i \in 1..Len(cps) |->
                IF cps[i] = 931 /\ FinalSigma(cps, i) THEN <<962>>
                ELSE LowerChar(cps[i])])

\* text.toLowerCase()
ToLowerCase(s) == CodeUnits(LowerCasePoints(CodePoints(s)))

\* the upper case of a sequence of code points
UpperCasePoints(cps) == Flatten([i \in 1..Len(cps) |-> UpperChar(cps[i])])

\* text.toUpperCase()
ToUpperCase(s) == CodeUnits(UpperCasePoints(CodePoints(s)))

\* a.includes(b)
Includes(s, sub) ==
    \E i \in 0..(Len(s) - Len(sub)) : SubSeq(s, i + 1, i + Len(sub)) = sub

\* a.startsWith(b)
StartsWith(s, pre) ==
    /\ Len(pre) <= Len(s)
    /\ SubSeq(s, 1, Len(pre)) = pre

\* the positions of s that do not hold a character of the set
Outside(s, set) == {i \in 1..Len(s) : s[i] \notin set}

\* the least position of a non-empty set of positions
First(positions) == CHOOSE i \in positions : \A j \in positions : i <= j

\* the greatest position of a non-empty set of positions
Last(positions) == CHOOSE i \in positions : \A j \in positions : j <= i

\* text.trimStart()
TrimStart(s) ==
    IF Outside(s, WhiteSpace) = {} THEN <<>>
    ELSE SubSeq(s, First(Outside(s, WhiteSpace)), Len(s))

\* text.trimEnd()
TrimEnd(s) ==
    IF Outside(s, WhiteSpace) = {} THEN <<>>
    ELSE SubSeq(s, 1, Last(Outside(s, WhiteSpace)))

\* text.trim()
Trim(s) == TrimEnd(TrimStart(s))

\* the longest prefix of s made of decimal digits
TakeDigits(s) ==
    IF Outside(s, 48..57) = {} THEN s
    ELSE SubSeq(s, 1, First(Outside(s, 48..57)) - 1)

Drop(s, n) == SubSeq(s, n + 1, Len(s))

(***************************************************************************)
(* Natural numbers of any size, for the conversion of decimal literals: a  *)
(* number is the sequence of its digits in base Base, the least significant*)
(* first and the most significant not zero (zero is the empty sequence).   *)
(***************************************************************************)
Base == 8192

RECURSIVE Pow2(_)
Pow2(n) == IF n <= 0 THEN 1 ELSE 2 * Pow2(n - 1)

\* the digit of x at position i
BigDigit(x, i) == IF i <= Len(x) THEN x[i] ELSE 0

\* digits without the zeros at the most significant end
BigStrip(digits) ==
    LET used == {i \in 1..Len(digits) : digits[i] # 0}
    IN  IF used = {} THEN <<>>
        ELSE SubSeq(digits, 1, CHOOSE i \in used : \A j \in used : j <= i)

\* x + y: position i takes a carry when a position below it overflows and
\* every position between the two is full
BigPlus(x, y) ==
    LET n     == (IF Len(x) > Len(y) THEN Len(x) ELSE Len(y)) + 1
        sum   == [i \in 1..n |-> BigDigit(x, i) + BigDigit(y, i)]
        Carry(i) ==
            \E j \in 1..(i - 1) :
                /\ sum[j] >= Base
                /\ \A k \in (j + 1)..(i - 1) : sum[k] = Base - 1
    IN  BigStrip([i \in 1..n |->
                     (sum[i] + (IF Carry(i) THEN 1 ELSE 0)) % Base])

\* x - y, for x >= y: position i gives a borrow when a position below it
\* falls short and every position between the two is level
BigMinus(x, y) ==
    LET diff  == [i \in 1..Len(x) |-> x[i] - BigDigit(y, i)]
        Borrow(i) ==
            \E j \in 1..(i - 1) :
                /\ diff[j] < 0
                /\ \A k \in (j + 1)..(i - 1) : diff[k] = 0
    IN  BigStrip([i \in 1..Len(x) |->
                     (diff[i] - (IF Borrow(i) THEN 1 ELSE 0) + Base) % Base])

\* x * k + carry, for 0 <= k <= Base and 0 <= carry < Base
BigTimes(x, k, carry) ==
    IF x = <<>> THEN IF carry = 0 THEN <<>> ELSE <<carry>>
    ELSE LET product == [i \in 1..Len(x) |-> x[i] * k]
         IN  BigPlus([i \in 1..Len(x) |-> product[i] % Base],
                     <<carry>> \o [i \in 1..Len(x) |-> product[i] \div Base])

\* x * 10^n: by 10^n for n below 4, else by the power of ten of one half of
\* n and then by that of the other half
RECURSIVE BigTimesPow10(_, _)
BigTimesPow10(x, n) ==
    IF x = <<>> \/ n <= 0 THEN x
    ELSE IF n >= 4
    THEN BigTimesPow10(BigTimesPow10(x, n \div 2), n - (n \div 2))
    ELSE BigTimes(x, IF n = 3 THEN 1000 ELSE IF n = 2 THEN 100 ELSE 10, 0)

\* x * 2^n
BigTimesPow2(x, n) ==
    IF x = <<>> THEN <<>>
    ELSE [i \in 1..(n \div 13) |-> 0] \o BigTimes(x, Pow2(n % 13), 0)

\* the number written with the decimal digits ds: that of the first half
\* of the digits, times the power of ten of the second half, plus that of
\* the second half
RECURSIVE BigOfDigits(_)
BigOfDigits(ds) ==
    IF Len(ds) <= 1
    THEN IF ds = <<>> \/ ds[1] = 48 THEN <<>> ELSE <<ds[1] - 48>>
    ELSE LET half == Len(ds) \div 2
         IN  BigPlus(BigTimesPow10(BigOfDigits(SubSeq(ds, 1, half)),
                                   Len(ds) - half),
                     BigOfDigits(SubSeq(ds, half + 1, Len(ds))))

\* -1, 0 or 1 as x is less than, equal to or greater than y
BigCompare(x, y) ==
    IF Len(x) > Len(y) THEN 1
    ELSE IF Len(x) < Len(y) THEN -1
    ELSE LET differ == {i \in 1..Len(x) : x[i] # y[i]}
         IN  IF differ = {} THEN 0
             ELSE LET top == CHOOSE i \in differ : \A j \in differ : j <= i
                  IN  IF x[top] > y[top] THEN 1 ELSE -1

RECURSIVE BitLength(_)
BitLength(n) == IF n = 0 THEN 0 ELSE 1 + BitLength(n \div 2)

\* the number of binary digits of x
BigBitLength(x) ==
    IF x = <<>> THEN 0 ELSE 13 * (Len(x) - 1) + BitLength(x[Len(x)])

(***************************************************************************)
(* Numbers.  A JavaScript number is an IEEE 754 double: its sign bit, its  *)
(* 11 exponent bits and its 52 fraction bits, the fraction as two words of *)
(* 26 bits (hi the upper one).                                             *)
(***************************************************************************)
Double(sign, exponent, hi, lo) ==
    [sign |-> sign, exponent |-> exponent, hi |-> hi, lo |-> lo]

NaN == Double(0, 2047, Pow2(25), 0)

Infinity(sign) == Double(sign, 2047, 0, 0)

Zero(sign) == Double(sign, 0, 0, 0)

\* the double of a natural number below 2^26
NumberOf(n) ==
    IF n = 0 THEN Zero(0)
    ELSE LET b == BitLength(n)
         IN  Double(0, 1022 + b, (n - Pow2(b - 1)) * Pow2(27 - b), 0)

\* IsNaN answering no for every value
IsNaNNever(x) == FALSE

\* isNaN(x)
IsNaN(x) == x.exponent = 2047 /\ (x.hi # 0 \/ x.lo # 0)

\* whether the magnitude of x is above that of y, neither being NaN
Outweighs(x, y) ==
    \/ x.exponent > y.exponent
    \/ x.exponent = y.exponent /\ x.hi > y.hi
    \/ x.exponent = y.exponent /\ x.hi = y.hi /\ x.lo > y.lo

\* x > k, for a natural number k below 2^26 (any comparison with NaN is
\* false)
GreaterThan(x, k) ==
    /\ ~IsNaN(x)
    /\ x.sign = 0
    /\ Outweighs(x, NumberOf(k))

\* x * Base^j
BigShift(x, j) == IF x = <<>> THEN <<>> ELSE [i \in 1..j |-> 0] \o x

\* v * c * Base^j
Part(v, c, j) == BigShift(BigTimes(v, c, 0), j)

\* the estimate of a digit of a quotient: the leading two digits of what is
\* divided over the leading digit of the divisor, Base - 1 at most
Guess(leading, top) ==
    IF leading \div top >= Base THEN Base - 1 ELSE leading \div top

\* the digit j of the quotient r / v: the greatest c with v * c * Base^j at
\* most r, which is the estimate or at most two less
QuotientDigit(r, v, j, guess) ==
    CHOOSE c \in (guess - 2)..guess :
        /\ c >= 0
        /\ BigCompare(Part(v, c, j), r) <= 0
        /\ c = guess \/ BigCompare(Part(v, c + 1, j), r) > 0

\* Long division in base Base: the digits j, .., 0 of the quotient r / v
\* and what is left of r, for r < v * Base^(j + 1) and v with its most
\* significant digit at least Base / 2.
RECURSIVE BigDivide(_, _, _)

\* the division of r by v from digit j on, that digit being known
DivideOn(r, v, j, digit) ==
    LET below == BigDivide(BigMinus(r, Part(v, digit, j)), v, j - 1)
    IN  [quotient |-> Append(below.quotient, digit), rest |-> below.rest]

BigDivide(r, v, j) ==
    IF j < 0 \/ r = <<>> THEN [quotient |-> [i \in 1..(j + 1) |-> 0], rest |-> r]
    ELSE DivideOn(r, v, j,
             QuotientDigit(r, v, j,
                 Guess(BigDigit(r, Len(v) + j + 1) * Base
                           + BigDigit(r, Len(v) + j),
                       v[Len(v)])))

\* x * 2^k for k > 0, x otherwise
Scaled(x, k) == BigTimesPow2(x, IF k > 0 THEN k ELSE 0)

\* e, or e + 1 when u / v is 2^(e + 53) or more
ExponentFrom(u, v, e) ==
    IF BigCompare(Scaled(u, -e), BigTimesPow2(Scaled(v, e), 53)) >= 0
    THEN e + 1 ELSE e

\* the exponent e of the last place of the double nearest to u / v:
\* 2^52 <= u / (v * 2^e) < 2^53, or e = -1074 when u / v is below the
\* normal range
LastPlace(u, v) ==
    ExponentFrom(u, v,
        IF BigBitLength(u) - BigBitLength(v) - 53 < -1074 THEN -1074
        ELSE BigBitLength(u) - BigBitLength(v) - 53)

\* whether a quotient is rounded up: what the division by w has left is
\* more than half of w, or it is half of w and the quotient is odd
RoundsUp(division, w) ==
    LET c == BigCompare(BigTimes(division.rest, 2, 0), w)
    IN  c > 0 \/ (c = 0 /\ division.quotient[1] % 2 = 1)

\* the whole number nearest to the quotient of a division by w, ties to
\* the even one
Nearest(division, w) ==
    IF RoundsUp(division, w) THEN BigPlus(division.quotient, <<1>>)
    ELSE division.quotient

\* the whole number nearest to num / den, for num / den < 2^53; both are
\* shifted by s, which brings the leading digit of den to Base / 2 or more
NearestQuotient(num, den, s) ==
    Nearest(BigDivide(BigTimesPow2(num, s), BigTimesPow2(den, s), 4),
            BigTimesPow2(den, s))

\* the double of sign with the significand hi * 2^26 + lo, at most 2^53 - 1,
\* and the last place 2^e: subnormal below 2^52, Infinity from 2^1024 on
Packed(sign, e, hi, lo) ==
    IF hi >= Pow2(26)
    THEN IF e + 1075 >= 2047 THEN Infinity(sign)
         ELSE Double(sign, e + 1075, hi - Pow2(26), lo)
    ELSE Double(sign, 0, hi, lo)

\* the double of sign with the significand m, at most 2^53, and the last
\* place 2^e
FromSignificand(sign, e, m) ==
    IF BigDigit(m, 5) = 2 THEN Packed(sign, e + 1, Pow2(26), 0)
    ELSE Packed(sign, e,
                BigDigit(m, 3) + BigDigit(m, 4) * Base
                    + BigDigit(m, 5) * Pow2(26),
                BigDigit(m, 1) + BigDigit(m, 2) * Base)

\* the double nearest to u / v with the last place 2^e
RoundAt(sign, u, v, e) ==
    FromSignificand(sign, e,
        NearestQuotient(Scaled(u, -e), Scaled(v, e),
                        13 - BitLength(Scaled(v, e)[Len(Scaled(v, e))])))

\* The double nearest to u / v, for v > 0, ties to the even one.
RoundToDouble(sign, u, v) ==
    IF u = <<>> THEN Zero(sign) ELSE RoundAt(sign, u, v, LastPlace(u, v))

\* the digits ds without their leading zeros
Significant(ds) ==
    IF Outside(ds, {48}) = {} THEN <<>>
    ELSE SubSeq(ds, First(Outside(ds, {48})), Len(ds))

\* the double nearest to 0.sig * 10^point, sig a sequence of decimal digits
\* that does not start with 0: Infinity from 10^310 on, zero below 10^-330
ScaledToDouble(sign, sig, point) ==
    IF sig = <<>> THEN Zero(sign)
    ELSE IF point > 310 THEN Infinity(sign)
    ELSE IF point < -330 THEN Zero(sign)
    ELSE RoundToDouble(sign,
             BigTimesPow10(BigOfDigits(sig), point - Len(sig)),
             BigTimesPow10(<<1>>, Len(sig) - point))

\* the value of a sequence of at most nine decimal digits (0 for none)
RECURSIVE SmallValue(_)
SmallValue(ds) ==
    IF ds = <<>> THEN 0
    ELSE 10 * SmallValue(SubSeq(ds, 1, Len(ds) - 1)) + (ds[Len(ds)] - 48)

\* the digits of the exponent part of a StrDecimalLiteral at the head of s,
\* without their leading zeros, none when there is no exponent part: e or
\* E, an optional sign, and digits
ExponentDigits(s) ==
    IF s = <<>> \/ Head(s) \notin {101, 69} THEN <<>>
    ELSE IF Len(s) >= 2 /\ s[2] \in {43, 45}
    THEN Significant(TakeDigits(Drop(s, 2)))
    ELSE Significant(TakeDigits(Drop(s, 1)))

\* -1 when the exponent part at the head of s has the sign '-', else 1
ExponentSign(s) ==
    IF Len(s) >= 2 /\ Head(s) \in {101, 69} /\ s[2] = 45 THEN -1 ELSE 1

\* 10 * tens + units, held between -1000 and 1000
Held(tens, units) ==
    IF tens > 100 THEN 1000
    ELSE IF tens < -100 THEN -1000
    ELSE 10 * tens + units

\* shift + sign * the value of the digits ds, held between -1000 and 1000,
\* for ds without leading zeros, of any length. The tens and the units are
\* added apart, so that an exponent of ten digits and a shift of the length
\* of the longest text stay exact; eleven digits outweigh every shift.
DecimalExponent(shift, sign, ds) ==
    IF ds = <<>> THEN Held(shift \div 10, shift % 10)
    ELSE IF Len(ds) > 10 THEN sign * 1000
    ELSE Held((shift \div 10) + sign * SmallValue(SubSeq(ds, 1, Len(ds) - 1)),
              (shift % 10) + sign * (ds[Len(ds)] - 48))

\* the digits after the decimal point at the head of s, none when s does
\* not start with a point
FractionDigits(s) ==
    IF s # <<>> /\ Head(s) = 46 THEN TakeDigits(Tail(s)) ELSE <<>>

\* s after its head of a decimal point and digits
AfterFraction(s) ==
    IF s # <<>> /\ Head(s) = 46 THEN Drop(s, 1 + Len(FractionDigits(s)))
    ELSE s

\* the number of the digits ip, the digits after the decimal point at the
\* head of rest, and the exponent part after these; NaN when there is no
\* digit at all. With n significant digits, f of them after the point, and
\* the exponent e the value is 0.d1..dn * 10^(n - f + e).
DecimalLiteral(sign, ip, rest) ==
    IF ip = <<>> /\ FractionDigits(rest) = <<>> THEN NaN
    ELSE ScaledToDouble(sign, Significant(ip \o FractionDigits(rest)),
             DecimalExponent(Len(Significant(ip \o FractionDigits(rest)))
                                 - Len(FractionDigits(rest)),
                             ExponentSign(AfterFraction(rest)),
                             ExponentDigits(AfterFraction(rest))))

\* the number of the StrUnsignedDecimalLiteral at the head of body: the word
\* 'Infinity', or decimal digits
UnsignedLiteral(sign, body) ==
    IF StartsWith(body, <<73, 110, 102, 105, 110, 105, 116, 121>>)
    THEN Infinity(sign)
    ELSE DecimalLiteral(sign, TakeDigits(body),
                        Drop(body, Len(TakeDigits(body))))

\* the number of the StrDecimalLiteral at the head of s: an optional sign,
\* then Infinity or decimal digits
SignedLiteral(s) ==
    UnsignedLiteral(IF s # <<>> /\ Head(s) = 45 THEN 1 ELSE 0,
                    IF s # <<>> /\ Head(s) \in {43, 45} THEN Tail(s) ELSE s)

\* parseFloat(text): leading white space is skipped, the longest prefix that
\* is a decimal literal is converted to the nearest double, anything after
\* it is ignored, and NaN is returned when there is no such prefix
ParseFloat(text) == SignedLiteral(TrimStart(text))

\* the decimal digits of a natural number, as a text
RECURSIVE NatToText(_)
NatToText(n) ==
    IF n < 10 THEN <<48 + n>>
    ELSE NatToText(n \div 10) \o <<48 + (n % 10)>>

(***************************************************************************)
(* Bounds of the model and the texts a user may type                       *)
(***************************************************************************)
\* answers accepted in one behaviour while the backend may be reachable
MaxAnswers == 3

\* answers accepted in one behaviour while the backend is down
MaxLocalAnswers == 5

TxtYes   == <<89, 101, 115>>  \* 'Yes'
TxtNo    == <<78, 111>>  \* 'No'
TxtY     == <<121>>  \* 'y'
TxtMaybe == <<109, 97, 121, 98, 101>>  \* 'maybe'
\* a space and a no-break space (U+00A0)
TxtBlank == <<32, 160>>
TxtHot   == <<51, 57, 46, 53>>  \* '39.5'
Txt39    == <<51, 57, 46, 48>>  \* '39.0'
\* '39.00000000000000001', which is nearer to the double 39 than to the next
\* double above it
Txt39Up  ==
    <<51, 57, 46, 48, 48, 48, 48, 48, 48, 48, 48, 48,
      48, 48, 48, 48, 48, 48, 48, 49>>
TxtWarm  == <<51, 56, 46, 53, 32, 67>>  \* '38.5 C'
Txt38    == <<32, 51, 56>>  \* ' 38'
TxtCool  == <<51, 55>>  \* '37'
TxtCough == <<67, 111, 117, 103, 104>>  \* 'Cough'

\* the answers given while the backend may be reachable
Inputs == {TxtYes, TxtNo, TxtHot, Txt39, TxtBlank}

\* the answers given to the local engine while the backend is down
EngineInputs == {TxtYes, TxtNo, TxtY, TxtBlank,
                 TxtHot, Txt39, Txt39Up, TxtWarm, Txt38, TxtCool}

TxtYep   == <<121, 101, 112>>  \* 'yep'
TxtN     == <<110>>  \* 'n'
TxtNope  == <<78, 111, 112, 101>>  \* 'Nope'
TxtYES   == <<89, 69, 83>>  \* 'YES'
TxtAbc   == <<97, 98, 99>>  \* 'abc'
TxtDays  == <<32, 51, 45, 52, 32, 100, 97, 121, 115, 32>>  \* ' 3-4 days '

\* the answers given to the local engine where the wording of the answer
\* is what matters
AnswerTexts ==
    EngineInputs \cup {TxtMaybe, TxtYep, TxtN, TxtNope, TxtYES, TxtAbc, TxtDays}

\* the texts typed into the text field
Typed == {TxtYes, TxtBlank}

(***************************************************************************)
(* Values                                                                  *)
(***************************************************************************)
\* undefined / null of a record-valued field
Undefined == [undefined |-> TRUE]

\* error === null
NoError == "null"

\* sessionId === null
NoSession == <<>>

\* {}
EmptyData == <<>>

\* { ...data, [key]: value }
With(data, key, value) ==
    [k \in (DOMAIN data) \cup {key} |-> IF k = key THEN value ELSE data[k]]

\* { ...a, ...b }
Spread(a, b) ==
    [k \in (DOMAIN a) \cup (DOMAIN b) |-> IF k \in DOMAIN b THEN b[k] ELSE a[k]]

LocalPrefix == <<108, 111, 99, 97, 108, 45>>  \* 'local-'

\* LocalSessionId without the dash of the prefix
LocalSessionIdNoDash(t) == <<108, 111, 99, 97, 108>> \o NatToText(t)  \* 'local'

\* `local-${Date.now()}`
LocalSessionId(t) == LocalPrefix \o NatToText(t)

\* IsLocalMode with equality for startsWith
IsLocalModeExact(sid) == sid # NoSession /\ sid = LocalPrefix

\* sessionId && sessionId.startsWith('local-')
IsLocalMode(sid) == sid # NoSession /\ StartsWith(sid, LocalPrefix)

StartQuestion ==
    [type     |-> "yes_no",
     key      |-> "has_fever",
     question |-> "Do you currently have a fever?",
     options  |-> <<TxtYes, TxtNo>>]

WelcomeText ==
    <<"Hello! I'm here to help assess your symptoms. Do you currently have a fever?">>

\* the welcome message of the local fallback
WelcomeMessage ==
    [sender |-> "bot", text |-> WelcomeText,
     question |-> StartQuestion, analysis |-> Undefined]

UserMessage(text) ==
    [sender |-> "user", text |-> text,
     question |-> Undefined, analysis |-> Undefined]

BotMessage(text, question, analysis) ==
    [sender |-> "bot", text |-> text,
     question |-> question, analysis |-> analysis]

(***************************************************************************)
(* The local dialogue engine (handleLocalResponse)                         *)
(***************************************************************************)
WordYes  == <<121, 101, 115>>  \* 'yes'
WordYep  == <<121, 101, 112>>  \* 'yep'
WordNo   == <<110, 111>>  \* 'no'
WordNope == <<110, 111, 112, 101>>  \* 'nope'

\* SaysYes without the test for 'y'
SaysYesInWords(lowerText) ==
    \/ Includes(lowerText, WordYes)
    \/ Includes(lowerText, WordYep)

\* lowerText.includes('yes') || lowerText.includes('yep') || lowerText === 'y'
SaysYes(lowerText) ==
    \/ Includes(lowerText, WordYes)
    \/ Includes(lowerText, WordYep)
    \/ lowerText = <<121>>  \* 'y'

\* lowerText.includes('no') || lowerText.includes('nope') || lowerText === 'n'
SaysNo(lowerText) ==
    \/ Includes(lowerText, WordNo)
    \/ Includes(lowerText, WordNope)
    \/ lowerText = <<110>>  \* 'n'

\* RiskScore with >= for >
RiskScoreInclusive(temp) ==
    IF GreaterThan(temp, 39) \/ temp = NumberOf(39) THEN 75
    ELSE IF GreaterThan(temp, 38) \/ temp = NumberOf(38) THEN 50
    ELSE 30

\* temp > 39 ? 75 : temp > 38 ? 50 : 30
RiskScore(temp) ==
    IF GreaterThan(temp, 39) THEN 75
    ELSE IF GreaterThan(temp, 38) THEN 50
    ELSE 30

\* RiskLevel with the medium band starting at 50
RiskLevelInclusive(riskScore) ==
    IF riskScore > 70 THEN "high"
    ELSE IF riskScore >= 50 THEN "medium"
    ELSE "low"

\* RiskLevel with the high band starting above 75
RiskLevelShifted(riskScore) ==
    IF riskScore > 75 THEN "high"
    ELSE IF riskScore > 50 THEN "medium"
    ELSE "low"

\* riskScore > 70 ? 'high' : riskScore > 50 ? 'medium' : 'low'
RiskLevel(riskScore) ==
    IF riskScore > 70 THEN "high"
    ELSE IF riskScore > 50 THEN "medium"
    ELSE "low"

\* the recommendation of the temperature branch
Recommendation(riskLevel) ==
    IF riskLevel = "high"
    THEN "Please consult a doctor immediately. Your temperature is high and requires medical attention."
    ELSE IF riskLevel = "medium"
    THEN "Monitor your symptoms and consider consulting a doctor if they worsen."
    ELSE "Rest and stay hydrated. Monitor your symptoms."

\* the code units of a risk level
LevelUnits(riskLevel) ==
    CASE riskLevel = "high"   -> <<104, 105, 103, 104>>
      [] riskLevel = "medium" -> <<109, 101, 100, 105, 117, 109>>
      [] OTHER                -> <<108, 111, 119>>

\* riskLevel.toUpperCase()
LevelUpperCase(riskLevel) == ToUpperCase(LevelUnits(riskLevel))

\* TemperatureAnalysis with the recommendation picked by the score
TemperatureAnalysisByScore(temp) ==
    LET riskScore == RiskScore(temp)
        riskLevel == RiskLevel(riskScore)
    IN  [risk_score           |-> riskScore,
         risk_level           |-> riskLevel,
         suspected_fever_type |-> "Viral Fever",
         recommendation       |-> Recommendation(
                                    IF riskScore > 70 THEN "high"
                                    ELSE IF riskScore >= 50 THEN "medium"
                                    ELSE "low")]

\* the analysis of the temperature branch
TemperatureAnalysis(temp) ==
    LET riskScore == RiskScore(temp)
        riskLevel == RiskLevel(riskScore)
    IN  [risk_score           |-> riskScore,
         risk_level           |-> riskLevel,
         suspected_fever_type |-> "Viral Fever",
         recommendation       |-> Recommendation(riskLevel)]

\* the analysis of other_symptoms, answered with 'yes'
GeneralSymptomsAnalysis ==
    [risk_score           |-> 40,
     risk_level           |-> "low",
     suspected_fever_type |-> "General Symptoms",
     recommendation       |-> "Rest and stay hydrated. If symptoms persist, consider consulting a doctor."]

\* the analysis of other_symptoms, answered otherwise
NoFeverAnalysis ==
    [risk_score           |-> 20,
     risk_level           |-> "low",
     suspected_fever_type |-> "No Fever",
     recommendation       |-> "You appear to be in good health. Continue monitoring your symptoms."]

DurationQuestion ==
    [type    |-> "choice",
     key     |-> "fever_duration",
     options |-> <<<<76, 101, 115, 115, 32, 116, 104, 97, 110, 32, 49, 32, 100, 97, 121>>,  \* 'Less than 1 day'
                   <<49, 45, 51, 32, 100, 97, 121, 115>>,  \* '1-3 days'
                   <<52, 45, 55, 32, 100, 97, 121, 115>>,  \* '4-7 days'
                   <<77, 111, 114, 101, 32, 116, 104, 97, 110, 32, 55, 32, 100, 97, 121, 115>>>>]  \* 'More than 7 days'

OtherSymptomsQuestion == [type |-> "yes_no", key |-> "other_symptoms"]

\* What one run of handleLocalResponse does: whether it calls
\* setSessionData, setCurrentStep and setCompleted(true) and with what, the
\* bot message it appends (hasReply), and the analysis handed to onComplete.
Effects(setsData, data, setsStep, step, completes, hasReply, reply, analysis) ==
    [setsData  |-> setsData,  data  |-> data,
     setsStep  |-> setsStep,  step  |-> step,
     completes |-> completes,
     hasReply  |-> hasReply,  reply |-> reply,
     analysis  |-> analysis]

Reprompt(data, step, text) ==
    Effects(FALSE, data, FALSE, step, FALSE,
            TRUE, BotMessage(<<text>>, Undefined, Undefined), Undefined)

Advance(data, step, text, question) ==
    Effects(TRUE, data, TRUE, step, FALSE,
            TRUE, BotMessage(<<text>>, question, Undefined), Undefined)

Complete(data, text, analysis) ==
    Effects(TRUE, data, TRUE, "complete", TRUE,
            TRUE, BotMessage(text, Undefined, analysis), analysis)

\* AtStart with every answer that is not a yes taken as a no
AtStartDefaultingToNo(currentStep, sessionData, lowerText) ==
    IF SaysYes(lowerText)
    THEN Advance(With(sessionData, "has_fever", TRUE), "fever_duration",
                 "How long have you had the fever?", DurationQuestion)
    ELSE Advance(With(sessionData, "has_fever", FALSE), "other_symptoms",
                 "Do you have any other symptoms like headache, body ache, or fatigue?",
                 OtherSymptomsQuestion)

\* currentStep === 'start' || currentStep === 'has_fever'
AtStart(currentStep, sessionData, lowerText) ==
    IF SaysYes(lowerText)
    THEN Advance(With(sessionData, "has_fever", TRUE), "fever_duration",
                 "How long have you had the fever?", DurationQuestion)
    ELSE IF SaysNo(lowerText)
    THEN Advance(With(sessionData, "has_fever", FALSE), "other_symptoms",
                 "Do you have any other symptoms like headache, body ache, or fatigue?",
                 OtherSymptomsQuestion)
    ELSE Reprompt(sessionData, currentStep, "Please answer with Yes or No.")

\* the 'fever_duration' branch moving on to 'other_symptoms'
AtFeverDurationCrossing(sessionData, text) ==
    Advance(With(sessionData, "fever_duration", text), "other_symptoms",
            "Do you have any other symptoms like headache, body ache, or fatigue?",
            Undefined)

\* the 'fever_duration' branch recording the lower-cased answer
AtFeverDurationLowered(sessionData, text) ==
    Advance(With(sessionData, "fever_duration", ToLowerCase(text)), "temperature",
            "What is your current body temperature? (in Celsius)", Undefined)

\* currentStep === 'fever_duration'
AtFeverDuration(sessionData, text) ==
    Advance(With(sessionData, "fever_duration", text), "temperature",
            "What is your current body temperature? (in Celsius)", Undefined)

\* the 'temperature' branch, temp being parseFloat(text)
AtTemperatureParsed(currentStep, sessionData, temp) ==
    IF ~IsNaN(temp)
    THEN Complete(With(sessionData, "temperature", temp),
                  <<"Based on your symptoms, your risk level is ",
                    LevelUpperCase(TemperatureAnalysis(temp).risk_level), ". ",
                    TemperatureAnalysis(temp).recommendation>>,
                  TemperatureAnalysis(temp))
    ELSE Reprompt(sessionData, currentStep,
                  "Please enter a valid temperature number.")

\* currentStep === 'temperature'
AtTemperature(currentStep, sessionData, text) ==
    AtTemperatureParsed(currentStep, sessionData, ParseFloat(text))

\* the 'other_symptoms' branch re-prompting what is neither a yes nor a no
AtOtherSymptomsReprompting(sessionData, lowerText) ==
    IF Includes(lowerText, WordYes)
    THEN Complete(With(sessionData, "other_symptoms", TRUE),
                  <<"Thank you for the information. ",
                    GeneralSymptomsAnalysis.recommendation>>,
                  GeneralSymptomsAnalysis)
    ELSE IF SaysNo(lowerText)
    THEN Complete(With(sessionData, "other_symptoms", FALSE),
                  <<NoFeverAnalysis.recommendation>>,
                  NoFeverAnalysis)
    ELSE Reprompt(sessionData, "other_symptoms", "Please answer with Yes or No.")

\* currentStep === 'other_symptoms'
AtOtherSymptoms(sessionData, lowerText) ==
    IF Includes(lowerText, WordYes)
    THEN Complete(With(sessionData, "other_symptoms", TRUE),
                  <<"Thank you for the information. ",
                    GeneralSymptomsAnalysis.recommendation>>,
                  GeneralSymptomsAnalysis)
    ELSE Complete(With(sessionData, "other_symptoms", FALSE),
                  <<NoFeverAnalysis.recommendation>>,
                  NoFeverAnalysis)

\* handleLocalResponse(text), run in a closure that holds currentStep and
\* sessionData; for any other step no branch is taken and nothing happens
LocalResponse(currentStep, sessionData, text) ==
    LET lowerText == ToLowerCase(text)
    IN  CASE currentStep \in {"start", "has_fever"} ->
                 AtStart(currentStep, sessionData, lowerText)
          [] currentStep = "fever_duration" ->
                 AtFeverDuration(sessionData, text)
          [] currentStep = "temperature" ->
                 AtTemperature(currentStep, sessionData, text)
          [] currentStep = "other_symptoms" ->
                 AtOtherSymptoms(sessionData, lowerText)
          [] OTHER ->
                 Effects(FALSE, sessionData, FALSE, currentStep, FALSE,
                         FALSE, Undefined, Undefined)

(***************************************************************************)
(* The remote dialogue backend.  Its code is not part of the sources; its  *)
(* responses are drawn from the shapes of the interface contract:          *)
(* StartSession() -> {sessionId, firstQuestion} and SubmitAnswer(..) ->    *)
(* {nextQuestion} | {completed: true, analysis}, an analysis obeying the   *)
(* risk bands (high above 70, medium above 50, low otherwise).             *)
(***************************************************************************)
RemotePrefix == <<115, 101, 115, 115, 45>>  \* 'sess-'

\* an opaque token, unique per conversation, outside the 'local-' namespace
RemoteSessionId(n) == RemotePrefix \o NatToText(n)

\* the body of a successful start-session response
RemoteStartResponse(n) ==
    [session_id    |-> RemoteSessionId(n),
     current_step  |-> "",
     message       |-> "",
     next_question |-> StartQuestion,
     question      |-> Undefined]

RemoteAnalysis ==
    [risk_score           |-> 60,
     risk_level           |-> "medium",
     suspected_fever_type |-> "Dengue",
     recommendation       |-> "Monitor your symptoms and consider consulting a doctor if they worsen."]

RemoteNext(step, question, data) ==
    [message       |-> "Thank you.",
     response      |-> "",
     next_question |-> question,
     question      |-> Undefined,
     next_step     |-> step,
     hasData       |-> TRUE,
     session_data  |-> data,
     completed     |-> FALSE,
     analysis      |-> Undefined]

RemoteDone(analysis) ==
    [message       |-> "Assessment complete.",
     response      |-> "",
     next_question |-> Undefined,
     question      |-> Undefined,
     next_step     |-> "",
     hasData       |-> FALSE,
     session_data  |-> EmptyData,
     completed     |-> TRUE,
     analysis      |-> analysis]

SymptomsQuestion ==
    [type     |-> "multi_choice",
     key      |-> "symptoms",
     question |-> "Which symptoms do you have?",
     options  |-> <<TxtCough>>]

\* the bodies of successful message responses
RemoteMessageResponses ==
    {RemoteNext("temperature", Undefined, [fever_duration |-> <<50, 100>>]),  \* '2d'
     RemoteNext("symptoms", SymptomsQuestion,
                [has_fever |-> TRUE]),
     RemoteDone(RemoteAnalysis)}

\* The remote authority, after the transition table of the specification:
\* the answer of the dialogue backend to an answer text given at step, with
\* the answers data recorded so far.  Affirmative and negative are read as
\* at 'start'; an answer the table has no row for is re-asked in place.
AuthorityAdvance(step, data, text) ==
    LET lowerText == ToLowerCase(text)
        Ask(next, with, prompt) ==
            [RemoteNext(next, Undefined, with) EXCEPT !.message = prompt]
        Done(analysis) ==
            [RemoteDone(analysis) EXCEPT !.message = analysis.recommendation]
    IN  CASE step \in {"start", "has_fever"} ->
                 IF SaysYes(lowerText)
                 THEN Ask("fever_duration", With(data, "has_fever", TRUE),
                          "How long have you had the fever?")
                 ELSE IF SaysNo(lowerText)
                 THEN Ask("other_symptoms", With(data, "has_fever", FALSE),
                          "Do you have any other symptoms like headache, body ache, or fatigue?")
                 ELSE Ask(step, data, "Please answer with Yes or No.")
          [] step = "fever_duration" ->
                 Ask("temperature", With(data, "fever_duration", text),
                     "What is your current body temperature? (in Celsius)")
          [] step = "temperature" ->
                 IF ~IsNaN(ParseFloat(text))
                 THEN Done(TemperatureAnalysis(ParseFloat(text)))
                 ELSE Ask(step, data, "Please enter a valid temperature number.")
          [] step = "other_symptoms" ->
                 IF SaysYes(lowerText) THEN Done(GeneralSymptomsAnalysis)
                 ELSE IF SaysNo(lowerText) THEN Done(NoFeverAnalysis)
                 ELSE Ask(step, data, "Please answer with Yes or No.")
          [] OTHER ->
                 Ask("start", EmptyData, "Do you currently have a fever?")

\* the authority's response to a message request
AuthorityResponse(call) ==
    AuthorityAdvance(call.currentStep, call.sessionData, call.text)

\* the ways a fetch fails: the promise rejects, or the status is not 2xx
Failures == {"rejected", "not_ok"}

(***************************************************************************)
(* State                                                                   *)
(***************************************************************************)
VARIABLES
    messages,     \* useState([]): the conversation
    input,        \* useState(''): the text field
    loading,      \* useState(false)
    sessionId,    \* useState(null)
    currentStep,  \* useState('start')
    sessionData,  \* useState({}): the answers
    completed,    \* useState(false)
    error,        \* useState(null)
    pending,      \* the network calls in flight, each with the values its
                  \* continuation closed over when the handler was called
    reported,     \* the calls of the onComplete prop, in order
    now,         \* the clock behind Date.now() and the backend's id source
    fallenBack,   \* whether a message call of the current session has failed
                  \* since the session was started or restarted
    answered,     \* answers accepted so far
    component     \* which Chatbot component this is: the patient portal's
                  \* (Chatbot.jsx) or the frontend's (Chatbot.tsx)

vars == <<messages, input, loading, sessionId, currentStep, sessionData,
          completed, error, pending, reported, now, fallenBack,
          answered, component>>

StartCall == [kind |-> "start"]

MessageCall(sid, text, step, data) ==
    [kind |-> "message", sessionId |-> sid, text |-> text,
     currentStep |-> step, sessionData |-> data]

SubmitCall(sid, analysis) ==
    [kind |-> "submit", sessionId |-> sid, analysis |-> analysis]

Without(calls, i) == SubSeq(calls, 1, i - 1) \o SubSeq(calls, i + 1, Len(calls))

\* a || b, for strings
OrElse(a, b) == IF a # "" THEN a ELSE b

\* a || b, for objects
OrElseObject(a, b) == IF a # Undefined THEN a ELSE b

\* next_question?.question
QuestionText(q) ==
    IF q # Undefined /\ "question" \in DOMAIN q THEN q.question ELSE ""

\* The state after the component has mounted: the initial state of each
\* useState, then the mount effect has called startSession, which has set
\* loading and issued the start-session request.
Init ==
    /\ messages = <<>>
    /\ input = <<>>
    /\ loading = TRUE
    /\ sessionId = NoSession
    /\ currentStep = "start"
    /\ sessionData = EmptyData
    /\ completed = FALSE
    /\ error = NoError
    /\ pending = <<StartCall>>
    /\ reported = <<>>
    /\ now = 1
    /\ fallenBack = FALSE
    /\ answered = 0
    /\ component = "portal"

(***************************************************************************)
(* startSession                                                            *)
(***************************************************************************)
\* response.ok: the session is the backend's
StartSessionOk(i) ==
    /\ i \in 1..Len(pending)
    /\ pending[i].kind = "start"
    /\ LET data == RemoteStartResponse(now)
       IN  /\ sessionId' = data.session_id
           /\ currentStep' = OrElse(data.current_step, "start")
           /\ messages' =
                <<BotMessage(
                    <<OrElse(data.message,
                             OrElse(QuestionText(data.next_question),
                                    WelcomeText[1]))>>,
                    OrElseObject(data.next_question, data.question),
                    Undefined)>>
    /\ loading' = FALSE
    /\ pending' = Without(pending, i)
    /\ now' = now + 1
    /\ fallenBack' = FALSE
    /\ UNCHANGED <<input, sessionData, completed, error, reported,
                   answered, component>>

\* the fetch failed: the session is started locally
StartSessionFailed(i, how) ==
    /\ i \in 1..Len(pending)
    /\ pending[i].kind = "start"
    /\ how \in Failures
    /\ sessionId' = LocalSessionId(now)
    /\ currentStep' = "start"
    /\ messages' = <<WelcomeMessage>>
    /\ loading' = FALSE
    /\ pending' = Without(pending, i)
    /\ now' = now + 1
    /\ fallenBack' = FALSE
    /\ UNCHANGED <<input, sessionData, completed, error, reported,
                   answered, component>>

(***************************************************************************)
(* sendMessage and handleLocalResponse                                     *)
(***************************************************************************)
\* Rejects without the test of completed
RejectsUnlessCompleted(text) == Trim(text) = <<>> \/ loading

\* if (!text.trim() || loading || completed) return
Rejects(text) == Trim(text) = <<>> \/ loading \/ completed

\* the setters handleLocalResponse calls and its call of onComplete, given
\* what its branch decided (e)
HandleLocalResponseWith(e, msgs, sid) ==
    /\ sessionData' = IF e.setsData THEN e.data ELSE sessionData
    /\ currentStep' = IF e.setsStep THEN e.step ELSE currentStep
    /\ completed' = IF e.completes THEN TRUE ELSE completed
    /\ messages' = IF e.hasReply THEN Append(msgs, e.reply) ELSE msgs
    /\ reported' = IF e.analysis # Undefined
                   THEN Append(reported,
                               [sessionId |-> sid, analysis |-> e.analysis])
                   ELSE reported

\* handleLocalResponse(text) run by a sendMessage whose closure holds step,
\* data and sid; msgs is the conversation with the updates queued so far
HandleLocalResponse(step, data, text, msgs, sid) ==
    HandleLocalResponseWith(LocalResponse(step, data, text), msgs, sid)

\* sendMessage(text), up to its first await; a rejected call changes nothing
SendMessage(text) ==
    IF Rejects(text)
    THEN UNCHANGED vars
    ELSE /\ answered' = answered + 1
         /\ input' = <<>>
         /\ error' = NoError
         /\ IF IsLocalMode(sessionId)
            THEN /\ HandleLocalResponse(currentStep, sessionData, Trim(text),
                        Append(messages, UserMessage(Trim(text))), sessionId)
                 /\ loading' = FALSE
                 /\ UNCHANGED pending
            ELSE /\ messages' = Append(messages, UserMessage(Trim(text)))
                 /\ loading' = TRUE
                 /\ pending' = Append(pending,
                        MessageCall(sessionId, Trim(text), currentStep,
                                    sessionData))
                 /\ UNCHANGED <<sessionData, currentStep, completed, reported>>
         /\ UNCHANGED <<sessionId, now, fallenBack, component>>

\* the text field's onChange; the field is rendered while the assessment is
\* not completed and is disabled while loading
OnChange(text) ==
    /\ ~completed
    /\ ~loading
    /\ input' = text
    /\ UNCHANGED <<messages, loading, sessionId, currentStep, sessionData,
                   completed, error, pending, reported, now,
                   fallenBack, answered, component>>

\* handleSubmit: if (input.trim()) sendMessage(input)
HandleSubmit ==
    IF Trim(input) # <<>> THEN SendMessage(input) ELSE UNCHANGED vars

\* The quick-reply buttons on screen: they are rendered while the assessment
\* is not completed and the last message carries a question, one button per
\* option of that question (question.options?.map).
QuickReplies ==
    IF /\ ~completed
       /\ Len(messages) > 0
       /\ messages[Len(messages)].question # Undefined
       /\ "options" \in DOMAIN messages[Len(messages)].question
    THEN {messages[Len(messages)].question.options[o] :
             o \in 1..Len(messages[Len(messages)].question.options)}
    ELSE {}

\* handleQuickReply(reply), from the click of a quick-reply button; the
\* buttons are disabled while loading.  Every other answer reaches
\* sendMessage through the text field: OnChange, then HandleSubmit.
HandleQuickReply(reply) ==
    /\ reply \in QuickReplies
    /\ ~loading
    /\ SendMessage(reply)

\* MessageOk with the local engine run on the answer as well
MessageOkThenLocal(i, data) ==
    /\ i \in 1..Len(pending)
    /\ pending[i].kind = "message"
    /\ LET call   == pending[i]
           e      == LocalResponse(call.currentStep, call.sessionData, call.text)
           done   == data.completed \/ data.analysis # Undefined
           submit == done /\ data.analysis # Undefined
                          /\ call.sessionId # NoSession
           bot    == BotMessage(<<OrElse(data.message,
                                         OrElse(data.response,
                                                "Thank you for your response."))>>,
                                OrElseObject(data.next_question, data.question),
                                data.analysis)
           told   == IF done /\ data.analysis # Undefined
                     THEN Append(reported, [sessionId |-> call.sessionId,
                                            analysis  |-> data.analysis])
                     ELSE reported
       IN  /\ sessionData' = IF e.setsData THEN e.data
                             ELSE IF data.hasData
                             THEN Spread(sessionData, data.session_data)
                             ELSE sessionData
           /\ messages' = IF e.hasReply
                          THEN Append(Append(messages, bot), e.reply)
                          ELSE Append(messages, bot)
           /\ completed' = IF done \/ e.completes THEN TRUE ELSE completed
           /\ reported' = IF e.analysis # Undefined
                          THEN Append(told, [sessionId |-> call.sessionId,
                                             analysis  |-> e.analysis])
                          ELSE told
           /\ currentStep' = IF e.setsStep THEN e.step
                             ELSE IF ~done /\ data.next_step # ""
                             THEN data.next_step
                             ELSE currentStep
           /\ pending' = IF submit
                         THEN Append(Without(pending, i),
                                     SubmitCall(call.sessionId, data.analysis))
                         ELSE Without(pending, i)
           /\ loading' = FALSE
    /\ UNCHANGED <<input, sessionId, error, now, fallenBack,
                   answered, component>>

\* the message request came back with response.ok
MessageOk(i, data) ==
    /\ i \in 1..Len(pending)
    /\ pending[i].kind = "message"
    /\ LET call   == pending[i]
           done   == data.completed \/ data.analysis # Undefined
           submit == done /\ data.analysis # Undefined
                          /\ call.sessionId # NoSession
       IN  /\ sessionData' = IF data.hasData
                             THEN Spread(sessionData, data.session_data)
                             ELSE sessionData
           /\ messages' = Append(messages,
                  BotMessage(<<OrElse(data.message,
                                      OrElse(data.response,
                                             "Thank you for your response."))>>,
                             OrElseObject(data.next_question, data.question),
                             data.analysis))
           /\ completed' = IF done THEN TRUE ELSE completed
           /\ reported' = IF done /\ data.analysis # Undefined
                          THEN Append(reported,
                                      [sessionId |-> call.sessionId,
                                       analysis  |-> data.analysis])
                          ELSE reported
           /\ currentStep' = IF ~done /\ data.next_step # ""
                             THEN data.next_step
                             ELSE currentStep
           /\ pending' = IF submit
                         THEN Append(Without(pending, i),
                                     SubmitCall(call.sessionId, data.analysis))
                         ELSE Without(pending, i)
           /\ loading' = IF submit THEN loading ELSE FALSE
    /\ UNCHANGED <<input, sessionId, error, now, fallenBack,
                   answered, component>>

\* MessageFailed with the local engine started over at 'start'
MessageFailedFromStart(i, how) ==
    /\ i \in 1..Len(pending)
    /\ pending[i].kind = "message"
    /\ how \in Failures
    /\ LET call == pending[i]
       IN  /\ HandleLocalResponse("start", EmptyData, call.text, messages,
                                  call.sessionId)
           /\ fallenBack' = (fallenBack \/ call.sessionId = sessionId)
    /\ loading' = FALSE
    /\ pending' = Without(pending, i)
    /\ UNCHANGED <<input, sessionId, error, now, answered, component>>

\* the message request failed: the answer goes to the local engine
MessageFailed(i, how) ==
    /\ i \in 1..Len(pending)
    /\ pending[i].kind = "message"
    /\ how \in Failures
    /\ LET call == pending[i]
       IN  /\ HandleLocalResponse(call.currentStep, call.sessionData,
                                  call.text, messages, call.sessionId)
           /\ fallenBack' = (fallenBack \/ call.sessionId = sessionId)
    /\ loading' = FALSE
    /\ pending' = Without(pending, i)
    /\ UNCHANGED <<input, sessionId, error, now, answered, component>>

\* SubmitSettled with a rejection surfaced and the completion taken back
SubmitSettledSurfacing(i, ok) ==
    /\ i \in 1..Len(pending)
    /\ pending[i].kind = "submit"
    /\ ok \in BOOLEAN
    /\ loading' = FALSE
    /\ pending' = Without(pending, i)
    /\ error' = IF ok THEN error ELSE "Failed to submit report"
    /\ completed' = IF ok THEN completed ELSE FALSE
    /\ UNCHANGED <<messages, input, sessionId, currentStep, sessionData,
                   reported, now, fallenBack, answered, component>>

\* the submit-report request settled; its response is not looked at, and a
\* rejection is caught and logged
SubmitSettled(i, ok) ==
    /\ i \in 1..Len(pending)
    /\ pending[i].kind = "submit"
    /\ ok \in BOOLEAN
    /\ loading' = FALSE
    /\ pending' = Without(pending, i)
    /\ UNCHANGED <<messages, input, sessionId, currentStep, sessionData,
                   completed, error, reported, now, fallenBack,
                   answered, component>>

(***************************************************************************)
(* handleRestart                                                           *)
(***************************************************************************)
\* the "Start New Assessment" button exists only while completed
HandleRestart ==
    /\ completed
    /\ messages' = <<>>
    /\ sessionData' = EmptyData
    /\ completed' = FALSE
    /\ currentStep' = "start"
    /\ error' = NoError
    /\ loading' = TRUE
    /\ pending' = Append(pending, StartCall)
    /\ fallenBack' = FALSE
    /\ UNCHANGED <<input, sessionId, reported, now, answered, component>>

(***************************************************************************)
(* The frontend's Chatbot component (Chatbot.tsx).  It keeps the same      *)
(* state; it has no local engine and no restart.                           *)
(***************************************************************************)
\* how many answers the frontend's component is given, those of option
\* clicks whose timeout is still waiting included
MaxSends == 2

\* The state after the frontend's component has mounted: startSession has
\* set loading, cleared error and issued the start-session request.
InitFrontend ==
    /\ messages = <<>>
    /\ input = <<>>
    /\ loading = TRUE
    /\ sessionId = NoSession
    /\ currentStep = "start"
    /\ sessionData = EmptyData
    /\ completed = FALSE
    /\ error = NoError
    /\ pending = <<StartCall>>
    /\ reported = <<>>
    /\ now = 1
    /\ fallenBack = FALSE
    /\ answered = 0
    /\ component = "frontend"

\* addMessage(text, sender, question, analysis), on the messages msgs
AddMessage(msgs, text, sender, question, analysis) ==
    Append(msgs, [sender |-> sender, text |-> text,
                  question |-> question, analysis |-> analysis])

\* question.key || fallback
KeyOrElse(q, fallback) ==
    IF "key" \in DOMAIN q /\ q.key # "" THEN q.key ELSE fallback

\* startSession: the response is ok
FrontendStartSessionOk(i) ==
    /\ i \in 1..Len(pending)
    /\ pending[i].kind = "start"
    /\ LET data == RemoteStartResponse(now)
           q    == data.next_question
       IN  /\ sessionId' = data.session_id
           /\ IF q # Undefined
              THEN /\ messages' = AddMessage(messages, <<q.question>>, "bot",
                                             q, Undefined)
                   /\ currentStep' = KeyOrElse(q, "start")
              ELSE UNCHANGED <<messages, currentStep>>
    /\ loading' = FALSE
    /\ pending' = Without(pending, i)
    /\ now' = now + 1
    /\ UNCHANGED <<input, sessionData, completed, error, reported,
                   fallenBack, answered, component>>

\* startSession: the fetch rejected, or the response is not ok
FrontendStartSessionFailed(i, how) ==
    /\ i \in 1..Len(pending)
    /\ pending[i].kind = "start"
    /\ how \in Failures
    /\ error' = "Failed to start chatbot session"
    /\ loading' = FALSE
    /\ pending' = Without(pending, i)
    /\ UNCHANGED <<messages, input, sessionId, currentStep, sessionData,
                   completed, reported, now, fallenBack, answered, component>>

\* the values a handleSend closes over: those of the render it was made in
Closure ==
    [input |-> input, loading |-> loading, completed |-> completed,
     sessionId |-> sessionId, currentStep |-> currentStep,
     sessionData |-> sessionData]

\* HandleSendRejects without the test of sessionId
HandleSendRejectsWithSession(c) ==
    Trim(c.input) = <<>> \/ c.loading \/ c.completed

\* if (!input.trim() || loading || completed || !sessionId) return
HandleSendRejects(c) ==
    Trim(c.input) = <<>> \/ c.loading \/ c.completed \/ c.sessionId = NoSession

\* handleSend of the closure c, up to its first await, with calls in flight
HandleSendAccepted(c, calls) ==
    /\ input' = <<>>
    /\ messages' = AddMessage(messages, Trim(c.input), "user",
                              Undefined, Undefined)
    /\ loading' = TRUE
    /\ error' = NoError
    /\ pending' = Append(calls, MessageCall(c.sessionId, Trim(c.input),
                                            c.currentStep, c.sessionData))
    /\ answered' = answered + 1
    /\ UNCHANGED <<sessionId, currentStep, sessionData, completed, reported,
                   now, fallenBack, component>>

\* handleSend from the send button or the Enter key
HandleSend ==
    IF HandleSendRejects(Closure)
    THEN UNCHANGED vars
    ELSE HandleSendAccepted(Closure, pending)

\* whether a message on screen offers the choice: renderQuestionOptions
OffersChoice(choice) ==
    \E k \in 1..Len(messages) :
        LET q == messages[k].question
        IN  /\ q # Undefined
            /\ \/ q.type = "yes_no" /\ choice \in {TxtYes, TxtNo}
               \/ /\ q.type = "choice"
                  /\ "options" \in DOMAIN q
                  /\ \E o \in 1..Len(q.options) : q.options[o] = choice

\* handleChoice(choice): setInput(choice); setTimeout(() => handleSend(), 100)
HandleChoice(choice) ==
    /\ OffersChoice(choice)
    /\ input' = choice
    /\ pending' = Append(pending, [kind |-> "timeout", closure |-> Closure,
                                   choice |-> choice])
    /\ UNCHANGED <<messages, loading, sessionId, currentStep, sessionData,
                   completed, error, reported, now, fallenBack, answered,
                   component>>

\* the timeout of a handleChoice fires: handleSend of the render in which
\* the option was clicked
HandleChoiceTimeout(i) ==
    /\ i \in 1..Len(pending)
    /\ pending[i].kind = "timeout"
    /\ IF HandleSendRejects(pending[i].closure)
       THEN /\ pending' = Without(pending, i)
            /\ UNCHANGED <<messages, input, loading, sessionId, currentStep,
                           sessionData, completed, error, reported, now,
                           fallenBack, answered, component>>
       ELSE HandleSendAccepted(pending[i].closure, Without(pending, i))

\* the options of the multi_choice questions on screen
MultiChoiceOptions ==
    {o \in {TxtCough} :
        \E k \in 1..Len(messages) :
            LET q == messages[k].question
            IN  /\ q # Undefined
                /\ q.type = "multi_choice"
                /\ "options" \in DOMAIN q
                /\ \E j \in 1..Len(q.options) : q.options[j] = o}

\* !value: false, '', 0, -0, NaN, null and undefined are falsy.  The answers
\* hold values of several kinds (booleans, texts, numbers, lists), so the
\* value is told by its printed form.  <<>> is the empty text and the empty
\* list alike: value || [] is the empty list for both.
Falsy(value) ==
    ToString(value) \in {ToString(FALSE), ToString(<<>>), ToString(Zero(0)),
                         ToString(Zero(1)), ToString(NaN), ToString(Undefined)}

\* sessionData[currentStep] || []
Selected ==
    IF currentStep \in DOMAIN sessionData /\ ~Falsy(sessionData[currentStep])
    THEN sessionData[currentStep] ELSE <<>>

\* handleMultiChoice(option): the option is toggled in the answers
HandleMultiChoice(option) ==
    /\ option \in MultiChoiceOptions
    /\ LET Other(o) == o # option
           updated  == IF \E j \in 1..Len(Selected) : Selected[j] = option
                       THEN SelectSeq(Selected, Other)
                       ELSE Append(Selected, option)
       IN  sessionData' = With(sessionData, currentStep, updated)
    /\ UNCHANGED <<messages, input, loading, sessionId, currentStep,
                   completed, error, pending, reported, now, fallenBack,
                   answered, component>>

\* the Continue button of a multi_choice question:
\* setSessionData({...sessionData, [currentStep]: selected}); handleSend()
HandleContinue ==
    /\ MultiChoiceOptions # {}
    /\ Len(Selected) > 0
    /\ HandleSend

\* handleSend: the message response is ok
HandleSendOk(i, data) ==
    /\ i \in 1..Len(pending)
    /\ pending[i].kind = "message"
    /\ LET call == pending[i]
           q    == data.next_question
       IN  /\ sessionData' = IF data.hasData THEN data.session_data
                                             ELSE sessionData
           /\ IF q # Undefined
              THEN /\ currentStep' = KeyOrElse(q, "")
                   /\ messages' = AddMessage(messages, <<data.message>>,
                                             "bot", q, Undefined)
                   /\ loading' = FALSE
                   /\ pending' = Without(pending, i)
                   /\ UNCHANGED completed
              ELSE IF data.completed /\ data.analysis # Undefined
              THEN /\ completed' = TRUE
                   /\ messages' = AddMessage(messages, <<data.message>>,
                                             "bot", Undefined, data.analysis)
                   /\ pending' = Append(Without(pending, i),
                          [kind |-> "report", sessionId |-> call.sessionId,
                           sessionData |-> call.sessionData,
                           analysis |-> data.analysis])
                   /\ UNCHANGED <<currentStep, loading>>
              ELSE /\ loading' = FALSE
                   /\ pending' = Without(pending, i)
                   /\ UNCHANGED <<currentStep, messages, completed>>
    /\ UNCHANGED <<input, sessionId, error, reported, now, fallenBack,
                   answered, component>>

\* handleSend: the message request rejected, or the response is not ok
HandleSendFailed(i, how) ==
    /\ i \in 1..Len(pending)
    /\ pending[i].kind = "message"
    /\ how \in Failures
    /\ error' = "Failed to send message. Please try again."
    /\ loading' = FALSE
    /\ pending' = Without(pending, i)
    /\ UNCHANGED <<messages, input, sessionId, currentStep, sessionData,
                   completed, reported, now, fallenBack, answered, component>>

\* handleSend: the submit-report request settled; a rejection is caught and
\* logged, the response is not looked at; then onComplete and finally
HandleSendReportSettled(i, ok) ==
    /\ i \in 1..Len(pending)
    /\ pending[i].kind = "report"
    /\ ok \in BOOLEAN
    /\ reported' = Append(reported, [sessionId |-> pending[i].sessionId,
                                     analysis  |-> pending[i].analysis])
    /\ loading' = FALSE
    /\ pending' = Without(pending, i)
    /\ UNCHANGED <<messages, input, sessionId, currentStep, sessionData,
                   completed, error, now, fallenBack, answered, component>>

(***************************************************************************)
(* Specifications                                                          *)
(***************************************************************************)
Next ==
    \/ \E i \in 1..Len(pending) : StartSessionOk(i)
    \/ \E i \in 1..Len(pending), how \in Failures : StartSessionFailed(i, how)
    \/ answered < MaxAnswers /\ \E text \in Inputs : OnChange(text)
    \/ answered < MaxAnswers /\ HandleSubmit
    \/ answered < MaxAnswers /\ \E reply \in QuickReplies : HandleQuickReply(reply)
    \/ \E i \in 1..Len(pending), data \in RemoteMessageResponses : MessageOk(i, data)
    \/ \E i \in 1..Len(pending), how \in Failures : MessageFailed(i, how)
    \/ \E i \in 1..Len(pending), ok \in BOOLEAN : SubmitSettled(i, ok)
    \/ HandleRestart

Spec == Init /\ [][Next]_vars

\* the backend is down: every start-session request fails
NextLocal ==
    \/ \E i \in 1..Len(pending), how \in Failures : StartSessionFailed(i, how)
    \/ answered < MaxLocalAnswers /\ \E text \in EngineInputs : OnChange(text)
    \/ answered < MaxLocalAnswers /\ HandleSubmit
    \/ answered < MaxLocalAnswers /\ \E reply \in QuickReplies : HandleQuickReply(reply)
    \/ HandleRestart

SpecLocal == Init /\ [][NextLocal]_vars

\* the backend is down, and the answers are those of AnswerTexts
NextAnswers ==
    \/ \E i \in 1..Len(pending), how \in Failures : StartSessionFailed(i, how)
    \/ answered < MaxAnswers /\ \E text \in AnswerTexts : OnChange(text)
    \/ answered < MaxAnswers /\ HandleSubmit
    \/ answered < MaxAnswers /\ \E reply \in QuickReplies : HandleQuickReply(reply)
    \/ HandleRestart

SpecAnswers == Init /\ [][NextAnswers]_vars

\* the portal's component with the remote authority answering every message
\* request after the specification's transition table; start-session may
\* succeed (a session served remotely) or fail (a session served locally)
NextAuthority ==
    \/ \E i \in 1..Len(pending) : StartSessionOk(i)
    \/ \E i \in 1..Len(pending), how \in Failures : StartSessionFailed(i, how)
    \/ answered < MaxAnswers /\ \E text \in EngineInputs : OnChange(text)
    \/ answered < MaxAnswers /\ HandleSubmit
    \/ answered < MaxAnswers /\ \E reply \in QuickReplies : HandleQuickReply(reply)
    \/ \E i \in 1..Len(pending) :
          pending[i].kind = "message" /\ MessageOk(i, AuthorityResponse(pending[i]))
    \/ \E i \in 1..Len(pending), ok \in BOOLEAN : SubmitSettled(i, ok)
    \/ HandleRestart

SpecAuthority == Init /\ [][NextAuthority]_vars

\* fetch is called without a timeout or an abort signal: a request the
\* network never answers stays pending, and its continuation never runs
NeverReturns(i) ==
    /\ i \in 1..Len(pending)
    /\ pending[i].kind \in {"start", "message", "submit"}
    /\ pending' = [pending EXCEPT ![i] = [kind |-> "lost"]]
    /\ UNCHANGED <<messages, input, loading, sessionId, currentStep,
                   sessionData, completed, error, reported, now, fallenBack,
                   answered, component>>

\* a request that is answered has its continuation run
Settles ==
    \E i \in 1..Len(pending) :
        \/ StartSessionOk(i)
        \/ \E how \in Failures : StartSessionFailed(i, how)
        \/ \E data \in RemoteMessageResponses : MessageOk(i, data)
        \/ \E how \in Failures : MessageFailed(i, how)
        \/ \E ok \in BOOLEAN : SubmitSettled(i, ok)

\* the portal's component on a network that may leave a request unanswered;
\* the event loop runs the continuation of every request that is answered
NextNetwork ==
    \/ Next
    \/ \E i \in 1..Len(pending) : NeverReturns(i)

SpecNetwork == Init /\ [][NextNetwork]_vars /\ WF_vars(Settles)

Timeouts == {i \in 1..Len(pending) : pending[i].kind = "timeout"}

\* the frontend's component
NextFrontend ==
    \/ \E i \in 1..Len(pending) : FrontendStartSessionOk(i)
    \/ \E i \in 1..Len(pending), how \in Failures : FrontendStartSessionFailed(i, how)
    \/ \E text \in Typed : OnChange(text)
    \/ answered < MaxSends /\ HandleSend
    \/ answered + Cardinality(Timeouts) < MaxSends /\ \E choice \in {TxtYes, TxtNo} : HandleChoice(choice)
    \/ answered < MaxSends /\ \E i \in 1..Len(pending) : HandleChoiceTimeout(i)
    \/ \E option \in MultiChoiceOptions : HandleMultiChoice(option)
    \/ answered < MaxSends /\ HandleContinue
    \/ \E i \in 1..Len(pending), data \in RemoteMessageResponses : HandleSendOk(i, data)
    \/ \E i \in 1..Len(pending), how \in Failures : HandleSendFailed(i, how)
    \/ \E i \in 1..Len(pending), ok \in BOOLEAN : HandleSendReportSettled(i, ok)

SpecFrontend == InitFrontend /\ [][NextFrontend]_vars

\* either component
NextComponents ==
    \/ component = "portal" /\ Next
    \/ component = "frontend" /\ NextFrontend

SpecComponents == (Init \/ InitFrontend) /\ [][NextComponents]_vars

(***************************************************************************)
(* Properties                                                              *)
(***************************************************************************)
LastMessage == messages[Len(messages)]

\* C1: at step 'temperature' the local engine scores an answer that parses
\* to a number t with 75 when t > 39, 50 when 38 < t <= 39 and 30 when
\* t <= 38; the answer "39.0" scores 50 and the answer "38" scores 30.
C1_TemperatureRule ==
    (completed /\ currentStep = "complete" /\ "temperature" \in DOMAIN sessionData) =>
        LET t     == sessionData.temperature
            said  == messages[Len(messages) - 1].text
            score == LastMessage.analysis.risk_score
        IN  /\ LastMessage.analysis # Undefined
            /\ ~IsNaN(t)
            /\ GreaterThan(t, 39) => score = 75
            /\ (GreaterThan(t, 38) /\ ~GreaterThan(t, 39)) => score = 50
            /\ ~GreaterThan(t, 38) => score = 30
            /\ said = Txt39 => score = 50
            /\ said = Txt39Up => t = NumberOf(39) /\ score = 50
            /\ said = Trim(Txt38) => score = 30

\* a local session has ended on the answer "39.0" with score 50
C1_Witness ==
    /\ completed
    /\ currentStep = "complete"
    /\ "temperature" \in DOMAIN sessionData
    /\ messages[Len(messages) - 1].text = Txt39
    /\ LastMessage.analysis.risk_score = 50

\* the bands of the data model: high above 70, medium above 50, else low
Banded(a) ==
    /\ a.risk_level = "high"   <=> a.risk_score > 70
    /\ a.risk_level = "medium" <=> (50 < a.risk_score /\ a.risk_score <= 70)
    /\ a.risk_level = "low"    <=> a.risk_score <= 50

\* C2: every analysis delivered to the user, by the local engine or taken
\* from a remote response, has the risk level of its score's band.
C2_LevelMatchesScore ==
    /\ \A i \in 1..Len(reported) : Banded(reported[i].analysis)
    /\ \A i \in 1..Len(messages) :
          messages[i].analysis # Undefined => Banded(messages[i].analysis)

\* the local engine has delivered a high-risk analysis of score 75
C2_Witness ==
    /\ completed
    /\ LastMessage.analysis # Undefined
    /\ LastMessage.analysis.suspected_fever_type = "Viral Fever"
    /\ LastMessage.analysis.risk_score = 75
    /\ LastMessage.analysis.risk_level = "high"

\* C3 as claimed: two analyses of the local engine with the same risk level
\* carry the same recommendation.
C3_LevelDeterminesRecommendation ==
    \A i, j \in 1..Len(reported) :
        reported[i].analysis.risk_level = reported[j].analysis.risk_level
            => reported[i].analysis.recommendation
                 = reported[j].analysis.recommendation

\* the recommendation each kind of analysis carries
RecommendationOf(type, level) ==
    CASE type = "General Symptoms" ->
           "Rest and stay hydrated. If symptoms persist, consider consulting a doctor."
      [] type = "No Fever" ->
           "You appear to be in good health. Continue monitoring your symptoms."
      [] type = "Viral Fever" /\ level = "high" ->
           "Please consult a doctor immediately. Your temperature is high and requires medical attention."
      [] type = "Viral Fever" /\ level = "medium" ->
           "Monitor your symptoms and consider consulting a doctor if they worsen."
      [] OTHER ->
           "Rest and stay hydrated. Monitor your symptoms."

\* C3 amended: the recommendation of an analysis of the local engine is
\* determined by its suspected fever type and its risk level: two analyses
\* that agree on both carry the same text, the one fixed for that pair.
C3_TypeAndLevelDetermineRecommendation ==
    /\ \A i \in 1..Len(reported) :
          reported[i].analysis.recommendation
            = RecommendationOf(reported[i].analysis.suspected_fever_type,
                               reported[i].analysis.risk_level)
    /\ \A i, j \in 1..Len(reported) :
          (/\ reported[i].analysis.suspected_fever_type
                = reported[j].analysis.suspected_fever_type
           /\ reported[i].analysis.risk_level = reported[j].analysis.risk_level)
            => reported[i].analysis.recommendation
                 = reported[j].analysis.recommendation

\* two low-risk analyses of different types, with different recommendations
C3_Witness ==
    \E i, j \in 1..Len(reported) :
        /\ reported[i].analysis.risk_level = "low"
        /\ reported[j].analysis.risk_level = "low"
        /\ reported[i].analysis.suspected_fever_type = "Viral Fever"
        /\ reported[j].analysis.suspected_fever_type = "No Fever"
        /\ reported[i].analysis.recommendation
             # reported[j].analysis.recommendation

\* C4: when the start-session call fails, startSession ends with a session
\* id of the 'local-' namespace, currentStep 'start', the start question as
\* the only message, loading false and no error.
C4_StartFallsBackLocally ==
    [][\A i \in 1..Len(pending) : \A how \in Failures :
          StartSessionFailed(i, how) =>
             /\ StartsWith(sessionId', <<108, 111, 99, 97, 108, 45>>)  \* 'local-'
             /\ currentStep' = "start"
             /\ Len(messages') = 1
             /\ messages'[1].sender = "bot"
             /\ messages'[1].question # Undefined
             /\ messages'[1].question.question = "Do you currently have a fever?"
             /\ ~loading'
             /\ error' = "null"]_vars

\* a session started locally, showing the start question only
C4_Witness ==
    /\ IsLocalMode(sessionId)
    /\ messages = <<WelcomeMessage>>
    /\ currentStep = "start"
    /\ ~loading
    /\ pending = <<>>

\* C5: when the message call of a remote session fails at the step
\* 'temperature' the backend had reported, the answer is handled by the
\* local engine at that step: a numeric answer t completes the session with
\* the analysis of the temperature rule (75 / 50 / 30).
C5_FallbackAtTemperature ==
    [][\A i \in 1..Len(pending) : \A how \in Failures :
          (/\ MessageFailed(i, how)
           /\ ~IsLocalMode(pending[i].sessionId)
           /\ pending[i].currentStep = "temperature"
           /\ ~IsNaN(ParseFloat(pending[i].text)))
          => LET t == ParseFloat(pending[i].text)
                 a == messages'[Len(messages')].analysis
             IN  /\ completed'
                 /\ Len(messages') = Len(messages) + 1
                 /\ a # Undefined
                 /\ a.risk_score = IF GreaterThan(t, 39) THEN 75
                                   ELSE IF GreaterThan(t, 38) THEN 50
                                   ELSE 30
                 /\ Banded(a)
                 /\ reported' = Append(reported,
                        [sessionId |-> pending[i].sessionId, analysis |-> a])]_vars

\* a remote session completed by the local engine's temperature analysis
C5_Witness ==
    /\ completed
    /\ sessionId # NoSession
    /\ ~IsLocalMode(sessionId)
    /\ fallenBack
    /\ "temperature" \in DOMAIN sessionData
    /\ LastMessage.analysis # Undefined
    /\ LastMessage.analysis.suspected_fever_type = "Viral Fever"
    /\ LastMessage.analysis.risk_score = 50

\* C6 as claimed: once a message call of the session has failed, an answer
\* accepted later in that session issues no request.
C6_NoRequestAfterFallback ==
    [][(fallenBack /\ answered' = answered + 1) => pending' = pending]_vars

Texts == Inputs \cup AnswerTexts \cup Typed

\* C7: once completed, sendMessage with any text appends no message, issues
\* no request and leaves currentStep, sessionData and completed as they
\* are; completed becomes false again only through handleRestart.
C7_CompletedIgnoresAnswers ==
    [][completed =>
          /\ \A text \in Texts :
                SendMessage(text) =>
                   UNCHANGED <<messages, pending, currentStep, sessionData,
                               completed>>
          /\ ~completed' => HandleRestart]_vars

\* a completed assessment at rest, with answers left to try
C7_Witness ==
    /\ completed
    /\ ~loading
    /\ pending = <<>>
    /\ answered < MaxAnswers

\* C8 as claimed: when a startSession settles, the session has no answers,
\* is not completed, is at 'start' and shows the start question only.
C8_RestartGivesFreshSession ==
    [][(\E i \in 1..Len(pending) :
           \/ StartSessionOk(i)
           \/ \E how \in Failures : StartSessionFailed(i, how))
       => /\ sessionData' = EmptyData
          /\ ~completed'
          /\ currentStep' = "start"
          /\ Len(messages') = 1
          /\ messages'[1].question # Undefined
          /\ messages'[1].question.question = "Do you currently have a fever?"]_vars

\* C9 as claimed: at most one message request of a session is outstanding.
C9_OneMessageRequestOutstanding ==
    \A i, j \in 1..Len(pending) :
        (/\ pending[i].kind = "message"
         /\ pending[j].kind = "message"
         /\ pending[i].sessionId = pending[j].sessionId)
        => i = j

\* C10: when the submit-report call of either component fails, completed
\* and the conversation stay as they are, no error is set, and onComplete
\* has been called with the analysis by the time the handler ends.
C10_SubmitFailureIsSwallowed ==
    [][\A i \in 1..Len(pending) :
          (SubmitSettled(i, FALSE) \/ HandleSendReportSettled(i, FALSE)) =>
             /\ completed' = completed
             /\ messages' = messages
             /\ error' = error
             /\ component = "portal" => error' = NoError
             /\ \E k \in 1..Len(reported') :
                   reported'[k] = [sessionId |-> pending[i].sessionId,
                                   analysis  |-> pending[i].analysis]]_vars

\* a completed assessment whose report request has settled: the analysis
\* message is the last one and onComplete has been called with it
C10_Witness ==
    /\ component = "portal"
    /\ completed
    /\ ~loading
    /\ pending = <<>>
    /\ error = NoError
    /\ LastMessage.analysis = RemoteAnalysis
    /\ \E k \in 1..Len(reported) : reported[k].analysis = RemoteAnalysis

\* the same in the frontend's component
C10_FrontendWitness ==
    /\ component = "frontend"
    /\ completed
    /\ ~loading
    /\ pending = <<>>
    /\ error = NoError
    /\ LastMessage.analysis = RemoteAnalysis
    /\ \E k \in 1..Len(reported) : reported[k].analysis = RemoteAnalysis

\* C11 as claimed: whenever a session completes with an analysis (onComplete
\* is called with it), a submit-report request carrying the session's id and
\* that analysis is in flight.
C11_CompletionSubmitsReport ==
    [][Len(reported') > Len(reported) =>
          \E i \in 1..Len(pending') :
              /\ pending'[i].kind = "submit"
              /\ pending'[i].sessionId = reported'[Len(reported')].sessionId
              /\ pending'[i].analysis = reported'[Len(reported')].analysis]_vars

\* the steps the local catalog knows
CatalogSteps ==
    {"start", "has_fever", "fever_duration", "temperature", "other_symptoms"}

\* C12 as claimed: when the local engine is handed an answer at a step
\* outside its catalog, it starts over: currentStep becomes 'start' and the
\* start question is the reply.
C12_UnknownStepRestartsAtStart ==
    [][\A i \in 1..Len(pending), how \in Failures :
          (MessageFailed(i, how) /\ pending[i].currentStep \notin CatalogSteps)
          => /\ currentStep' = "start"
             /\ Len(messages') = Len(messages) + 1
             /\ messages'[Len(messages')].sender = "bot"
             /\ messages'[Len(messages')].question = StartQuestion]_vars

\* C13: when a message request comes back ok, the state is the response
\* applied to it and nothing else: one bot message with the response's text,
\* question and analysis, the response's session data merged in, its next
\* step unless it completes, and onComplete called with its analysis only.
C13_RemoteResponseAppliedVerbatim ==
    [][\A i \in 1..Len(pending), data \in RemoteMessageResponses :
          MessageOk(i, data) =>
             /\ messages' = Append(messages,
                    [sender |-> "bot", text |-> <<data.message>>,
                     question |-> data.next_question,
                     analysis |-> data.analysis])
             /\ sessionData' = IF data.hasData
                               THEN Spread(sessionData, data.session_data)
                               ELSE sessionData
             /\ currentStep' = IF data.completed THEN currentStep
                               ELSE data.next_step
             /\ completed' = (completed \/ data.completed)
             /\ reported' = IF data.analysis # Undefined
                            THEN Append(reported,
                                        [sessionId |-> pending[i].sessionId,
                                         analysis  |-> data.analysis])
                            ELSE reported]_vars

\* a remote session after the answer "Yes" was answered by the backend with
\* next step 'temperature': nothing of the local engine's has_fever is there
C13_Witness ==
    /\ sessionId = RemoteSessionId(1)
    /\ ~fallenBack
    /\ ~loading
    /\ Len(messages) = 3
    /\ messages[2].text = TxtYes
    /\ currentStep = "temperature"
    /\ sessionData = [fever_duration |-> <<50, 100>>]  \* '2d'
    /\ LastMessage.text = <<"Thank you.">>

\* C14 as claimed: whenever loading is true (a startSession or an accepted
\* answer is in progress), loading eventually becomes false again, also
\* when a request is never answered.
C14_LoadingEnds == loading ~> ~loading

\* C15: in a session whose id starts with 'local-', an accepted answer
\* issues no request; it is handled by handleLocalResponse at once, with the
\* step and the answers of the session, and loading is false afterwards.
C15_LocalSessionIssuesNoRequest ==
    [][(/\ sessionId # NoSession
        /\ StartsWith(sessionId, LocalPrefix)
        /\ answered' = answered + 1)
       => LET text == messages'[Len(messages) + 1].text
              e    == LocalResponse(currentStep, sessionData, text)
              said == Append(messages, UserMessage(text))
          IN  /\ pending' = pending
              /\ ~loading'
              /\ messages' = IF e.hasReply THEN Append(said, e.reply) ELSE said
              /\ currentStep' = e.step
              /\ sessionData' = e.data
              /\ completed' = e.completes]_vars

\* a locally started session with one answer taken and answered, and
\* nothing in flight
C15_Witness ==
    /\ sessionId = LocalSessionId(1)
    /\ answered = 1
    /\ Len(messages) = 3
    /\ messages[2].sender = "user"
    /\ messages[3].sender = "bot"
    /\ pending = <<>>
    /\ ~loading

\* the answer text is accepted in a local session that is at step
EnginePath(step, text) ==
    /\ sessionId # NoSession
    /\ StartsWith(sessionId, LocalPrefix)
    /\ currentStep = step
    /\ answered' = answered + 1
    /\ messages'[Len(messages) + 1] = UserMessage(Trim(text))

\* the step appended one bot message, without an analysis, and delivered none
NoAnalysisYet ==
    /\ Len(messages') = Len(messages) + 2
    /\ messages'[Len(messages')].sender = "bot"
    /\ messages'[Len(messages')].analysis = Undefined
    /\ reported' = reported
    /\ ~completed'

\* C16: at step 'start' the local engine takes "Yes", "YES", "y" and "yep"
\* as has_fever = true and moves to 'fever_duration', and "No", "n" and
\* "Nope" as has_fever = false and moves to 'other_symptoms'; neither
\* completes the session or produces an analysis.
C16_StartClassifiesAnswer ==
    [][/\ \A text \in {TxtYes, TxtYES, TxtY, TxtYep} :
            EnginePath("start", text) =>
               /\ sessionData' = With(sessionData, "has_fever", TRUE)
               /\ currentStep' = "fever_duration"
               /\ NoAnalysisYet
       /\ \A text \in {TxtNo, TxtN, TxtNope} :
            EnginePath("start", text) =>
               /\ sessionData' = With(sessionData, "has_fever", FALSE)
               /\ currentStep' = "other_symptoms"
               /\ NoAnalysisYet]_vars

\* the answer "y" has been taken as yes
C16_Witness ==
    /\ Len(messages) = 3
    /\ messages[2].text = TxtY
    /\ currentStep = "fever_duration"
    /\ sessionData = [has_fever |-> TRUE]
    /\ ~completed

\* the step appended, after the user's message, the bot message text and
\* left the step, the answers, completed and the onComplete log alone
Reprompted(text) ==
    /\ Len(messages') = Len(messages) + 2
    /\ messages'[Len(messages')] =
          [sender |-> "bot", text |-> <<text>>,
           question |-> Undefined, analysis |-> Undefined]
    /\ currentStep' = currentStep
    /\ sessionData' = sessionData
    /\ completed' = completed
    /\ reported' = reported

\* C17: at step 'start' the local engine answers "maybe", "abc", "39.5" and
\* " 3-4 days " with 'Please answer with Yes or No.' and changes neither the
\* step nor the answers nor completed, each time such an answer is given.
C17_StartRepromptsInPlace ==
    [][\A text \in {TxtMaybe, TxtAbc, TxtHot, TxtDays} :
          EnginePath("start", text) =>
             Reprompted("Please answer with Yes or No.")]_vars

\* "maybe" has been answered three times in a row at 'start', with the same
\* re-prompt each time
C17_Witness ==
    /\ Len(messages) = 7
    /\ \A k \in {2, 4, 6} : messages[k].text = TxtMaybe
    /\ \A k \in {3, 5, 7} : messages[k].text = <<"Please answer with Yes or No.">>
    /\ currentStep = "start"
    /\ sessionData = EmptyData
    /\ ~completed

\* C18: at step 'temperature' the local engine answers "abc", "maybe", "Yes"
\* and "No", none of which parses to a number, with 'Please enter a valid
\* temperature number.'; the step stays 'temperature', no temperature is
\* recorded, completed is not set and onComplete is not called.
C18_TemperatureRepromptsInPlace ==
    [][\A text \in {TxtAbc, TxtMaybe, TxtYes, TxtNo} :
          EnginePath("temperature", text) =>
             /\ Reprompted("Please enter a valid temperature number.")
             /\ currentStep' = "temperature"
             /\ "temperature" \notin DOMAIN sessionData'
             /\ ~completed']_vars

\* "abc" has been answered at 'temperature' and re-prompted
C18_Witness ==
    /\ Len(messages) = 7
    /\ messages[6].text = TxtAbc
    /\ messages[7].text = <<"Please enter a valid temperature number.">>
    /\ currentStep = "temperature"
    /\ "temperature" \notin DOMAIN sessionData
    /\ reported = <<>>
    /\ ~completed

\* the step completed the session with the analysis a, shown in the last
\* message and handed to onComplete
CompletedWith(a) ==
    /\ completed'
    /\ Len(messages') = Len(messages) + 2
    /\ messages'[Len(messages')].analysis = a
    /\ reported' = Append(reported, [sessionId |-> sessionId, analysis |-> a])

\* C19 as claimed: at step 'other_symptoms' the answers taken as yes at
\* 'start' ("Yes", "YES", "y", "yep") complete the session with
\* other_symptoms = true and the analysis 40 / low / 'General Symptoms', and
\* the answers taken as no ("No", "n", "Nope") with other_symptoms = false
\* and the analysis 20 / low / 'No Fever'.
C19_OtherSymptomsClassifiesAsStart ==
    [][/\ \A text \in {TxtYes, TxtYES, TxtY, TxtYep} :
            EnginePath("other_symptoms", text) =>
               /\ sessionData' = With(sessionData, "other_symptoms", TRUE)
               /\ \E a \in {messages'[Len(messages')].analysis} :
                     /\ a # Undefined
                     /\ a.risk_score = 40
                     /\ a.risk_level = "low"
                     /\ a.suspected_fever_type = "General Symptoms"
                     /\ CompletedWith(a)
       /\ \A text \in {TxtNo, TxtN, TxtNope} :
            EnginePath("other_symptoms", text) =>
               /\ sessionData' = With(sessionData, "other_symptoms", FALSE)
               /\ \E a \in {messages'[Len(messages')].analysis} :
                     /\ a # Undefined
                     /\ a.risk_score = 20
                     /\ a.risk_level = "low"
                     /\ a.suspected_fever_type = "No Fever"
                     /\ CompletedWith(a)]_vars

\* the answers 'start' takes as yes, and the numeric texts with their values
Affirmatives == {TxtYes, TxtYES, TxtY, TxtYep}

NumericTexts == {TxtHot, Txt39, Txt39Up, TxtWarm, Txt38, TxtCool}

\* 39.5 = 79 * 2^-1 and 38.5 = 77 * 2^-1 as doubles (exponent 5)
ValueOf(t) ==
    CASE t = TxtHot  -> Double(0, 1028, 15728640, 0)
      [] t \in {Txt39, Txt39Up} -> NumberOf(39)
      [] t = TxtWarm -> Double(0, 1028, 13631488, 0)
      [] t = Txt38   -> NumberOf(38)
      [] OTHER       -> NumberOf(37)

ScoreOf(t) ==
    CASE t \in {TxtHot}         -> 75
      [] t \in {Txt39, Txt39Up, TxtWarm} -> 50
      [] OTHER                  -> 30

LevelOf(t) == IF t = TxtHot THEN "high" ELSE "low"

\* the answers of the model as sendMessage passes them on: text.trim()
Trimmed == [text \in AnswerTexts |-> Trim(text)]

\* the conversation of the session is exactly the start question followed by
\* the answers a, d and t as the user messages 2, 4 and 6
Answered(a, d, t) ==
    /\ Len(messages) >= 6
    /\ messages[2].sender = "user" /\ messages[2].text = Trimmed[a]
    /\ messages[4].sender = "user" /\ messages[4].text = Trimmed[d]
    /\ messages[6].sender = "user" /\ messages[6].text = Trimmed[t]

\* the session is complete after three answers, with the answers recorded as
\* has_fever, duration and temperature, and the temperature analysis of t
ThreeStepResult(duration, t) ==
    /\ Len(messages) = 7
    /\ completed
    /\ currentStep = "complete"
    /\ sessionData = [has_fever |-> TRUE, fever_duration |-> duration,
                      temperature |-> ValueOf(t)]
    /\ LastMessage.analysis # Undefined
    /\ LastMessage.analysis.suspected_fever_type = "Viral Fever"
    /\ LastMessage.analysis.risk_score = ScoreOf(t)
    /\ LastMessage.analysis.risk_level = LevelOf(t)
    /\ (t = TxtHot => /\ LastMessage.analysis.risk_score = 75
                    /\ LastMessage.analysis.risk_level = "high")

\* C20 as claimed: in a local session the answers [affirmative, any
\* non-empty text d, numeric text t] complete the session in three steps with
\* answers {has_fever: true, fever_duration: d as typed, temperature: t} and
\* the temperature analysis of t; for t = "39.5" that is 75 / 'high'.
C20_DurationRecordedAsTyped ==
    (Len(messages) >= 6 /\ IsLocalMode(sessionId)) =>
        \A a \in Affirmatives : \A d \in AnswerTexts : \A t \in NumericTexts :
            (d # <<>> /\ Answered(a, d, t)) => ThreeStepResult(d, t)

\* C20 amended: in a local session the answers [affirmative, any text d that
\* is not blank, numeric text t] complete the session in three steps with
\* answers {has_fever: true, fever_duration: d trimmed of surrounding white
\* space, temperature: the number t parses to} and the temperature analysis
\* of t; for t = "39.5" that is 75 / 'high'.
C20_DurationRecordedTrimmed ==
    (Len(messages) >= 6 /\ IsLocalMode(sessionId)) =>
        \A a \in Affirmatives : \A d \in AnswerTexts : \A t \in NumericTexts :
            (Trimmed[d] # <<>> /\ Answered(a, d, t))
                => ThreeStepResult(Trimmed[d], t)

\* a local session completed by "Yes", " 3-4 days " and "39.5": the duration
\* is recorded without its surrounding blanks, the analysis is 75 / 'high'
C20_Witness ==
    /\ IsLocalMode(sessionId)
    /\ Answered(TxtYes, TxtDays, TxtHot)
    /\ completed
    /\ sessionData.fever_duration = <<51, 45, 52, 32, 100, 97, 121, 115>>  \* '3-4 days'
    /\ LastMessage.analysis.risk_score = 75
    /\ LastMessage.analysis.risk_level = "high"

\* C21 as claimed: in the frontend's component a failed start-session or
\* message call is recovered by continuing the conversation locally and is
\* never shown as an error: after the failure error is null, there is a
\* session to answer in, and the failed call has been replied to by a bot
\* message.
C21_FrontendFailureRecoversLocally ==
    [][\A i \in 1..Len(pending) : \A how \in Failures :
          /\ FrontendStartSessionFailed(i, how) =>
                /\ error' = NoError
                /\ sessionId' # NoSession
                /\ Len(messages') = Len(messages) + 1
                /\ messages'[Len(messages')].sender = "bot"
          /\ HandleSendFailed(i, how) =>
                /\ error' = NoError
                /\ Len(messages') = Len(messages) + 1
                /\ messages'[Len(messages')].sender = "bot"]_vars

MonitorText ==
    "Monitor your symptoms and consider consulting a doctor if they worsen."

\* C23: no analysis of the local engine has risk_level 'medium' or the
\* 'Monitor your symptoms ...' recommendation; its scores are 20, 30, 40, 50
\* and 75; and a temperature above 38 and at most 39 gives score 50 with
\* level 'low' and the recommendation 'Rest and stay hydrated. Monitor your
\* symptoms.'.
C23_LocalEngineNeverMedium ==
    /\ \A i \in 1..Len(reported) :
          /\ reported[i].analysis.risk_level # "medium"
          /\ reported[i].analysis.recommendation # MonitorText
          /\ reported[i].analysis.risk_score \in {20, 30, 40, 50, 75}
    /\ \A k \in 1..Len(messages) :
          messages[k].analysis # Undefined =>
             /\ messages[k].analysis.risk_level # "medium"
             /\ messages[k].analysis.recommendation # MonitorText
             /\ messages[k].analysis.risk_score \in {20, 30, 40, 50, 75}
    /\ (completed /\ "temperature" \in DOMAIN sessionData) =>
          LET t == sessionData.temperature
          IN  (GreaterThan(t, 38) /\ ~GreaterThan(t, 39)) =>
                 /\ LastMessage.analysis # Undefined
                 /\ LastMessage.analysis.risk_score = 50
                 /\ LastMessage.analysis.risk_level = "low"
                 /\ LastMessage.analysis.recommendation
                      = "Rest and stay hydrated. Monitor your symptoms."

\* a local session has ended on the answer "38.5 C": score 50, level 'low',
\* and the rest-and-hydrate recommendation
C23_Witness ==
    /\ completed
    /\ "temperature" \in DOMAIN sessionData
    /\ messages[Len(messages) - 1].text = TxtWarm
    /\ LastMessage.analysis # Undefined
    /\ LastMessage.analysis.risk_score = 50
    /\ LastMessage.analysis.risk_level = "low"
    /\ LastMessage.analysis.recommendation
         = "Rest and stay hydrated. Monitor your symptoms."
    /\ Len(reported) > 0

\* the answers of the model without 'yes' in them, blank ones aside
WithoutYes ==
    {TxtNo, TxtN, TxtNope, TxtY, TxtYep, TxtMaybe, TxtAbc, TxtDays,
     TxtHot, Txt39, Txt39Up, TxtWarm, Txt38, TxtCool}

\* C24: at step 'other_symptoms' the local engine never re-prompts: every
\* accepted answer without 'yes' in it ("maybe", "y" and "yep" among them)
\* completes the session with other_symptoms = false and the 'No Fever'
\* analysis of score 20, and an answer with 'yes' in it completes it too.
C24_OtherSymptomsNeverReprompts ==
    [][/\ \A text \in WithoutYes :
            EnginePath("other_symptoms", text) =>
               /\ sessionData' = With(sessionData, "other_symptoms", FALSE)
               /\ currentStep' = "complete"
               /\ CompletedWith(NoFeverAnalysis)
               /\ messages'[Len(messages')].analysis.risk_score = 20
               /\ messages'[Len(messages')].analysis.suspected_fever_type
                    = "No Fever"
       /\ \A text \in AnswerTexts :
            EnginePath("other_symptoms", text) =>
               /\ completed'
               /\ currentStep' # "other_symptoms"]_vars

\* a local session completed at 'other_symptoms' by the answer "maybe", with
\* other_symptoms = false and the 'No Fever' analysis
C24_Witness ==
    /\ IsLocalMode(sessionId)
    /\ completed
    /\ currentStep = "complete"
    /\ sessionData = [has_fever |-> FALSE, other_symptoms |-> FALSE]
    /\ Len(messages) = 5
    /\ messages[4].text = TxtMaybe
    /\ LastMessage.analysis # Undefined
    /\ LastMessage.analysis.risk_score = 20

\* C25: in the portal's component there is no state with completed = true
\* in which no analysis has been delivered: a bot message of the
\* conversation carries an analysis and onComplete was called with it.
C25_CompletedHasAnalysis ==
    completed =>
        \E k \in 1..Len(messages) :
            /\ messages[k].analysis # Undefined
            /\ \E r \in 1..Len(reported) :
                  reported[r].analysis = messages[k].analysis

\* the bot messages of the conversation that carry an analysis; the
\* conversation is emptied by handleRestart
WithAnalysis(msgs) == {k \in 1..Len(msgs) : msgs[k].analysis # Undefined}

\* C26 as claimed: between two restarts at most one bot message carrying an
\* analysis is appended, and onComplete is invoked at most once: it is not
\* invoked when the conversation already holds an analysis.
C26_OneCompletionPerSession ==
    [][/\ Cardinality(WithAnalysis(messages')) <= 1
       /\ Len(reported') > Len(reported) => WithAnalysis(messages) = {}]_vars

\* a start-session request is in flight
StartInFlight == \E i \in 1..Len(pending) : pending[i].kind = "start"

\* C27 as claimed: while the startSession of a restart is in flight loading
\* is true and stays true until it settles, also when the restart was
\* clicked while a sendMessage awaits its submit-report call, and no answer
\* is accepted, so none is sent with the previous session's id.
C27_RestartHoldsLoading ==
    [][StartInFlight =>
          /\ loading
          /\ StartInFlight' => loading'
          /\ answered' = answered
          /\ \A i \in 1..Len(pending') :
                pending'[i].kind = "message" =>
                   \E j \in 1..Len(pending) : pending[j] = pending'[i]]_vars

\* C28 as claimed: in the frontend's component a click on an option c in an
\* active, idle, uncompleted session results in exactly one message request,
\* whose message is c, whatever the text field held at the click: when the
\* timeout of the click fires, one request with the message c is issued.
C28_ChoiceSendsTheChoice ==
    [][\A i \in 1..Len(pending) :
          (/\ HandleChoiceTimeout(i)
           /\ ~pending[i].closure.loading
           /\ ~pending[i].closure.completed
           /\ pending[i].closure.sessionId # NoSession) =>
              /\ Len(pending') = Len(pending)
              /\ pending'[Len(pending')].kind = "message"
              /\ pending'[Len(pending')].text = pending[i].choice]_vars

\* the moves of currentStep along the two branches of the local dialogue
ForwardMoves ==
    {<<"start", "fever_duration">>, <<"fever_duration", "temperature">>,
     <<"temperature", "complete">>,
     <<"start", "other_symptoms">>, <<"other_symptoms", "complete">>}

\* an answer was accepted in a local session
LocalAnswer == answered' = answered + 1 /\ IsLocalMode(sessionId)

\* C29: in a session that stays in local mode an accepted answer leaves
\* currentStep where it is or moves it one step forward along start ->
\* fever_duration -> temperature -> complete or start -> other_symptoms ->
\* complete, every answer key already recorded keeps its value, and completed
\* is true exactly when currentStep = 'complete'.
C29_LocalStepsOnlyForward ==
    /\ [][LocalAnswer =>
            /\ currentStep' = currentStep
                 \/ <<currentStep, currentStep'>> \in ForwardMoves
            /\ \A k \in DOMAIN sessionData :
                  /\ k \in DOMAIN sessionData'
                  /\ sessionData'[k] = sessionData[k]]_vars
    /\ [](completed <=> currentStep = "complete")

\* a local session has gone start -> fever_duration -> temperature ->
\* complete, with all three answers recorded
C29_Witness ==
    /\ IsLocalMode(sessionId)
    /\ completed
    /\ currentStep = "complete"
    /\ DOMAIN sessionData = {"has_fever", "fever_duration", "temperature"}
    /\ sessionData.has_fever
    /\ Len(messages) >= 7

\* the message requests in flight
MessageCalls(calls) == {i \in 1..Len(calls) : calls[i].kind = "message"}

\* C30: in the frontend's component a failed message request leaves
\* sessionId, currentStep, sessionData and completed unchanged, sets loading
\* to false and sets the error message, so that a session not completed
\* accepts an answer to the same step again; and once start-session has
\* failed sessionId stays null and no handleSend sends anything.
C30_FrontendFailureKeepsSession ==
    /\ [][\A i \in 1..Len(pending) : \A how \in Failures :
            HandleSendFailed(i, how) =>
               /\ UNCHANGED <<sessionId, currentStep, sessionData, completed>>
               /\ ~loading'
               /\ error' = "Failed to send message. Please try again."
               /\ ~completed =>
                     ~HandleSendRejects([Closure EXCEPT !.input = TxtYes,
                                                        !.loading = loading',
                                                        !.completed = completed'])]_vars
    /\ [][(sessionId = NoSession /\ ~StartInFlight) =>
            /\ sessionId' = NoSession
            /\ MessageCalls(pending') = {}
            /\ messages' = messages
            /\ answered' = answered]_vars

\* a message request has failed, and the same step has been answered again:
\* the second answer follows the first with no bot message between them, and
\* its request is in flight for the same session and step
C30_Witness ==
    /\ component = "frontend"
    /\ sessionId # NoSession
    /\ Len(messages) = 3
    /\ messages[2].sender = "user"
    /\ messages[3].sender = "user"
    /\ currentStep = "has_fever"
    /\ ~completed
    /\ loading
    /\ error = NoError
    /\ \E i \in MessageCalls(pending) :
          /\ pending[i].sessionId = sessionId
          /\ pending[i].currentStep = "has_fever"

\* the answers of the conversation, in order
UserTexts(msgs) ==
    LET IsUser(m) == m.sender = "user"
        users     == SelectSeq(msgs, IsUser)
    IN  [k \in 1..Len(users) |-> users[k].text]

\* the local engine run on the answers from k on, from the step, answers and
\* outcome st; a completed session accepts no further answer
RECURSIVE LocalRun(_, _, _)
LocalRun(answers, k, st) ==
    IF k > Len(answers) \/ st.completed THEN st
    ELSE LET e == LocalResponse(st.step, st.data, answers[k])
         IN  LocalRun(answers, k + 1,
                      [step      |-> IF e.setsStep THEN e.step ELSE st.step,
                       data      |-> IF e.setsData THEN e.data ELSE st.data,
                       completed |-> e.completes,
                       analysis  |-> e.analysis])

\* the outcome of a local session given the answers
LocalOutcome(answers) ==
    LocalRun(answers, 1, [step |-> "start", data |-> EmptyData,
                          completed |-> FALSE, analysis |-> Undefined])

\* the session is served by the remote authority and no call is in flight
ServedRemotely ==
    /\ sessionId # NoSession
    /\ ~IsLocalMode(sessionId)
    /\ pending = <<>>
    /\ ~loading

\* C22 as claimed: a session served by the remote authority and a session of
\* the local engine given the same answers reach the same outcome: the one
\* is completed exactly when the other is, after the same answer, and their
\* analyses have the same risk_score, risk_level and recommendation.
C22_RemoteAndLocalSameOutcome ==
    ServedRemotely =>
        LET local == LocalOutcome(UserTexts(messages))
        IN  /\ completed <=> local.completed
            /\ completed =>
                  /\ LastMessage.analysis # Undefined
                  /\ local.analysis # Undefined
                  /\ LastMessage.analysis.risk_score = local.analysis.risk_score
                  /\ LastMessage.analysis.risk_level = local.analysis.risk_level
                  /\ LastMessage.analysis.recommendation
                       = local.analysis.recommendation

====
